---- MODULE Spec2Model ----
(***************************************************************************)
(* A model of the semantic-analysis core of the Malloy translator          *)
(* (packages/malloy/src/lang/ast): field spaces, segment executors, the    *)
(* pipeline composer and the binary-operator dispatcher.                   *)
(*                                                                         *)
(* The module holds several specifications over one set of variables:      *)
(*   SpecSpace   a DynamicSpace built from a source StructDef              *)
(*   SpecResult  a ResultSpace (reduce / project) and its segment          *)
(*   SpecExec    a Reduce/Project/Index executor run and its finalize      *)
(*   SpecPipe    FullQuery / ExistingQuery / TurtleDecl pipeline building  *)
(*   SpecExpr    applyBinary over typed operands                           *)
(***************************************************************************)
EXTENDS Integers, Sequences, FiniteSets, TLC

VARIABLES
    \* ---- a field space (DynamicSpace and its subclasses) ----
    spaceClass,   \* "DynamicSpace" | "ReduceFieldSpace" | "ProjectFieldSpace"
    map,          \* StaticSpace.memoMap, a name -> SpaceEntry map in insertion order
    fromParams,   \* names of fromStruct.parameters
    final,        \* DynamicSpace.final
    complete,     \* DynamicSpace.complete
    completions,  \* DynamicSpace.completions
    refineSeg,    \* the segment a ResultSpace is asked to refine (getPipeSegment's argument)
    segment,      \* what getPipeSegment returned
    \* ---- what a caller of the space observes ----
    log,          \* diagnostics logged, in order
    invoked,      \* completion callbacks in the order they ran
    registered,   \* number of callbacks handed to whenComplete so far
    builds,       \* how often structDef() built a StructDef
    returned,     \* the StructDefs structDef() returned, in order
    lastOp,       \* the last operation on the space and what it did
    ops,          \* number of operations so far
    \* ---- one QOPDesc.getOp: a segment built by an executor ----
    qop,          \* QOPDesc.list, the properties of the segment
    refineThis,   \* QOPDesc.refineThis, the segment being refined, if any
    pc,           \* position in getOp: "start", "execute", "done"
    qi,           \* index of the next property to execute
    opType,       \* QOPDesc.opType, "grouping" until computeType assigns it
    executor,     \* which executor getExecutor constructed
    exFilters,    \* executor.filters
    exOrder,      \* executor.order (ReduceExecutor)
    exLimit,      \* executor.limit
    exFields,     \* what the result space and the index field list collected
    exLog,        \* diagnostics logged by getOp
    opSegment,    \* the segment finalize returned
    \* ---- one application of a binary operator ----
    left,         \* the left operand
    right,        \* the right operand
    operator,     \* the operator
    applied,      \* whether the operator has been applied
    result,       \* the ExprValue returned
    exprLog,      \* diagnostics logged by the application
    threw,        \* whether the application threw instead of returning
    caller,       \* what evaluated the expression: a BinaryOp node alone, a
                  \* FilterElement or a FieldDeclaration
    callerLog,    \* diagnostics the caller logged
    escaped,      \* whether an exception left the caller
    \* ---- queries and turtles built from pipelines ----
    modelEntry,   \* the query the model holds under the name an ExistingQuery refers to
    built,        \* the Query or TurtleDef the last compilation produced
    outputStruct, \* QueryComp.outputStruct of the last compilation
    compiled,     \* the segments the last compilation built with getOp, with their input
    pipeLog,      \* diagnostics logged by the last compilation
    comps,        \* number of compilations so far
    request,      \* the AST node last compiled: its class, turtle name, whether it
                  \* has a head refinement, and its number of appended segments
    \* ---- a source of the model and the NamedSources that refer to it ----
    entryKind,    \* what the model holds under the name: "struct", "query", "sql", "missing"
    exported,     \* ModelEntry.exported
    parameters,   \* the parameters of the entry's StructDef, by name
    isBlock,      \* the is-block of the last NamedSource, a list of name/value pairs
    srcCall,      \* the last call: "structDef" or "structRef"
    srcBefore,    \* the entry's parameters when the last call began
    srcDeclared,  \* the parameters as the source was declared with them
    srcResult,    \* what the last call returned
    srcLog,       \* diagnostics logged by the last call
    srcCalls,     \* number of calls so far
    \* ---- one FieldDeclaration.fieldDef in an explore ----
    defineName,   \* FieldDeclaration.defineName
    realFS,       \* DefSpace.realFS, the map of the explore's space
    foundCircle,  \* DefSpace.foundCircle
    defPc,        \* "idle", "expr" while the expression is evaluated, "done"
    defLookups,   \* the lookups the expression made, with what they returned
    defType,      \* the data type of the expression's value
    defLog,       \* diagnostics the FieldDeclaration logged
    \* ---- queries nested in queries, level 1 being the outermost ----
    depth,        \* number of levels
    has,          \* per level, whether the result space has an entry of the name
    nestPc,       \* per level: "waiting", "execute", "finalize", "done"
    qs,           \* the QuerySpaces: complete and completions per level,
                  \* the checks performed and the diagnostics logged
    requests,     \* number of ungrouping references checked so far
    \* ---- the input space of one segment that extends its source ----
    xMap,         \* the map of the QuerySpace
    extendList,   \* QuerySpace.extendList
    xAdded,       \* names of the fields extendSource added to the space
    xLog,         \* diagnostics logged
    xSegment,     \* the segment of getPipeSegment, once made
    \* ---- a document of SQL statements, its driver and the sql-query zone ----
    stmts,        \* per statement, the name makeSQLBlock gives its select
    requestBlock, \* per statement, SQLStatement.requestBlock
    zone,         \* the sql-query zone: the status of the entry of each name
    stmtAt,       \* the statement the pass executes next
    pending,      \* the ModelDataRequest the pass returned, if any
    lastExec,     \* the last execute: the name looked up, the status found,
                  \* whether a request was returned
    referenced,   \* per statement, the names it has referenced in the zone
    answers       \* the names the driver has resolved

spaceVars == <<spaceClass, map, fromParams, final, complete, completions,
               refineSeg, segment, log, invoked, registered, builds, returned,
               lastOp, ops>>

execVars == <<qop, refineThis, pc, qi, opType, executor, exFilters, exOrder,
              exLimit, exFields, exLog, opSegment>>

exprVars == <<left, right, operator, applied, result, exprLog, threw, caller,
              callerLog, escaped>>

pipeVars == <<modelEntry, built, outputStruct, compiled, pipeLog, comps, request>>

srcVars == <<entryKind, exported, parameters, isBlock, srcCall, srcBefore,
             srcDeclared, srcResult, srcLog, srcCalls>>

coreVars == <<spaceVars, execVars, exprVars, pipeVars>>

defVars == <<defineName, realFS, foundCircle, defPc, defLookups, defType, defLog>>

nestVars == <<depth, has, nestPc, qs, requests>>

extVars == <<xMap, extendList, xAdded, xLog, xSegment>>

sqlVars == <<stmts, requestBlock, zone, stmtAt, pending, lastExec, referenced,
            answers>>

moreVars == <<srcVars, defVars, nestVars, extVars, sqlVars>>

vars == <<coreVars, moreVars>>

(***************************************************************************)
(* Bounds                                                                  *)
(***************************************************************************)
MaxOps == 3
MaxProps == 3
MaxComps == 2
MaxQops == 2

Names == {"a", "b", "c"}

(***************************************************************************)
(* Space entries.  cls is the class of the SpaceEntry; typ is the type of  *)
(* the FieldDef the entry yields ("none" when fieldDef() is undefined);    *)
(* et is the expression type of that FieldDef; diag is the diagnostic that *)
(* compiling the entry's definition logs ("" when it logs none).           *)
(***************************************************************************)
Entry(n, c, t, x) == [name |-> n, cls |-> c, typ |-> t, et |-> x, diag |-> ""]

\* An entry made from a declaration of the AST.  A definition that does not
\* compile cleanly logs at its own node, the at-th declaration made.
Declared(e, bad, at) ==
    [e EXCEPT !.diag = IF bad THEN "Cannot define " \o e.name \o " @" \o ToString(at)
                       ELSE ""]

\* what field.fieldDef() / getQueryFieldDef() logs: ExpressionFieldFromAst
\* and QueryFieldAST compile their definition on every call
CompileLog(e) == IF e.diag = "" THEN <<>> ELSE <<e.diag>>

\* spaceEntry instanceof StructSpaceField (JoinSpaceField extends it)
IsStructSpaceField(e) == e.cls \in {"StructSpaceField", "JoinSpaceField"}

\* spaceEntry instanceof QueryField
IsQueryField(e) == e.cls \in {"QueryFieldStruct", "QueryFieldAST"}

\* spaceEntry instanceof SpaceParam
IsSpaceParam(e) == e.cls \in {"DefinedParameter", "AbstractParameter"}

\* spaceEntry instanceof SpaceField
IsSpaceField(e) == ~IsSpaceParam(e)

\* StaticSpace.fromFieldDef: the entry made for a FieldDef of a StructDef
fromFieldDef(fd) ==
    IF fd.typ = "struct" THEN Entry(fd.name, "StructSpaceField", "struct", "scalar")
    ELSE IF fd.typ = "turtle" THEN Entry(fd.name, "QueryFieldStruct", "turtle", "scalar")
    ELSE Entry(fd.name, "ColumnSpaceField", fd.typ, fd.et)

FieldDef(n, t, x) == [name |-> n, typ |-> t, et |-> x]

\* position of a name in the map, 0 when absent
IndexOf(m, n) ==
    IF \E i \in 1..Len(m) : m[i].name = n
    THEN CHOOSE i \in 1..Len(m) : m[i].name = n
    ELSE 0

\* StaticSpace.entry
entry(m, n) == IndexOf(m, n) # 0

EntryOf(m, n) == m[IndexOf(m, n)]

\* StaticSpace.setEntry: this.map[name] = value; an existing key keeps its place
StaticSetEntry(m, n, v) ==
    IF entry(m, n) THEN [m EXCEPT ![IndexOf(m, n)] = v] ELSE Append(m, v)

\* StaticSpace.dropEntry
dropEntry(m, n) == SelectSeq(m, LAMBDA e : e.name # n)

\* StaticSpace.map: entries for the fields, then for the parameters
SeedMap(fields, params) ==
    LET F == [i \in 1..Len(fields) |-> fromFieldDef(fields[i])]
        P == [i \in 1..Len(params) |->
                 Entry(params[i], "DefinedParameter", "param", "scalar")]
    IN F \o P

NoFinal == [set |-> FALSE, fields |-> <<>>, parameters |-> {}]
NoSeg == [set |-> FALSE, type |-> "none", fields |-> <<>>]
NoOp == [op |-> "none", name |-> "", existed |-> FALSE, wasFinal |-> FALSE,
         wasComplete |-> FALSE, hadSegment |-> FALSE, changed |-> FALSE,
         logged |-> FALSE, threw |-> FALSE, error |-> ""]


(***************************************************************************)
(* Writes.  The outcome of a write is a record: the map and the log after  *)
(* it, and whether it threw.  A step that follows a throw does not run.    *)
(***************************************************************************)
Outcome(m, l) == [map |-> m, log |-> l, threw |-> FALSE]

\* DynamicSpace.setEntry: if (this.final) throw new Error("Space already final")
SetEntryAllowed(f) == ~f.set

\* DynamicSpace.setEntry
setEntry(r, n, v) ==
    IF r.threw THEN r
    ELSE IF ~SetEntryAllowed(final) THEN [r EXCEPT !.threw = TRUE]
    ELSE [r EXCEPT !.map = StaticSetEntry(r.map, n, v)]

\* el.log(msg)
Logged(r, msg) == IF r.threw THEN r ELSE [r EXCEPT !.log = Append(r.log, msg)]

\* DynamicSpace.newEntry
newEntry(r, n, v) ==
    IF entry(r.map, n) THEN Logged(r, "Cannot redefine") ELSE setEntry(r, n, v)

\* The record kept of an operation on the space
OpRecord(opname, n, r) ==
    [op |-> opname, name |-> n, existed |-> entry(map, n),
     wasFinal |-> final.set, wasComplete |-> complete,
     hadSegment |-> segment.set, changed |-> r.map # map, logged |-> r.log # log,
     threw |-> r.threw, error |-> ""]

\* A write to the space: nothing but the map and the log is touched
Write(opname, n, r) ==
    /\ ops < MaxOps
    /\ map' = r.map
    /\ log' = r.log
    /\ lastOp' = OpRecord(opname, n, r)
    /\ ops' = ops + 1
    /\ UNCHANGED <<spaceClass, fromParams, final, complete, completions,
                   refineSeg, segment, invoked, registered, builds, returned>>
    /\ UNCHANGED <<execVars, exprVars, pipeVars, moreVars>>

\* DynamicSpace.addField, def instanceof FieldDeclaration
addField_FieldDeclaration(n, x, bad) ==
    Write("addField", n,
          newEntry(Outcome(map, log), n,
                   Declared(Entry(n, "ExpressionFieldFromAst", "atomic", x),
                            bad, ops + 1)))

\* DynamicSpace.addField, def instanceof TurtleDecl
addField_TurtleDecl(n, bad) ==
    Write("addField", n,
          newEntry(Outcome(map, log), n,
                   Declared(Entry(n, "QueryFieldAST", "turtle", "scalar"),
                            bad, ops + 1)))

\* DynamicSpace.addField, def instanceof Join; ok is whether join.structDef()
\* is a StructDef rather than the error sentinel
addField_Join(n, ok) ==
    Write("addField", n,
          newEntry(Outcome(map, log), n,
                   Entry(n, "JoinSpaceField", IF ok THEN "struct" ELSE "error",
                         "scalar")))

\* RenameSpaceField: the FieldDef of the other field under a new name
RenameSpaceField(other, newName) ==
    [Entry(newName, "RenameSpaceField", other.typ, other.et)
        EXCEPT !.diag = other.diag]

\* DynamicSpace.addField, def instanceof RenameField
RenameOutcome(old, new) ==
    LET r == Outcome(map, log) IN
    IF old = new THEN Logged(r, "Can't rename field to itself")
    ELSE IF ~entry(map, old) THEN Logged(r, "Can't rename, no such field")
    ELSE IF ~IsSpaceField(EntryOf(map, old)) THEN Logged(r, "cannot be renamed")
    ELSE LET s == setEntry(r, new, RenameSpaceField(EntryOf(map, old), new))
         IN IF s.threw THEN s ELSE [s EXCEPT !.map = dropEntry(s.map, old)]

addField_RenameField(old, new) ==
    Write("addField", new, RenameOutcome(old, new))

\* DynamicSpace.addFieldDef
addFieldDef(fd) ==
    Write("addFieldDef", fd.name,
          setEntry(Outcome(map, log), fd.name, fromFieldDef(fd)))

\* DynamicSpace.addParameters, one parameter
addParameters(n) ==
    Write("addParameters", n,
          setEntry(Outcome(map, log), n,
                   Entry(n, "AbstractParameter", "param", "scalar")))


(***************************************************************************)
(* Lookups                                                                 *)
(***************************************************************************)
\* the LookupResult of StaticSpace.lookup for a path that starts with head
\* and has or has no further names; a joined space holds no field of the
\* further name
LookupError(m, head, rest) ==
    IF ~entry(m, head) THEN "is not defined"
    ELSE IF rest
    THEN IF IsStructSpaceField(EntryOf(m, head)) THEN "is not defined"
         ELSE "cannot contain"
    ELSE ""

\* StaticSpace.lookup(path): a SpaceField found for the head is asked for
\* its fieldDef() to record the reference
lookup(head, rest) ==
    /\ ops < MaxOps
    /\ LET found == entry(map, head)
           compiles == found /\ IsSpaceField(EntryOf(map, head))
           l == IF compiles THEN CompileLog(EntryOf(map, head)) ELSE <<>>
       IN /\ log' = log \o l
          /\ lastOp' = [NoOp EXCEPT !.op = "lookup", !.name = head,
                                    !.existed = found,
                                    !.wasFinal = final.set,
                                    !.wasComplete = complete,
                                    !.hadSegment = segment.set,
                                    !.logged = (l # <<>>),
                                    !.error = LookupError(map, head, rest)]
    /\ ops' = ops + 1
    /\ UNCHANGED <<spaceClass, map, fromParams, final, complete, completions,
                   refineSeg, segment, invoked, registered, builds, returned>>
    /\ UNCHANGED <<execVars, exprVars, pipeVars, moreVars>>

(***************************************************************************)
(* Completion callbacks                                                    *)
(***************************************************************************)
\* DynamicSpace.isComplete: complete = true, run the steps in order, clear them
isComplete ==
    /\ complete' = TRUE
    /\ invoked' = invoked \o completions
    /\ completions' = <<>>

\* DynamicSpace.whenComplete's test of this.complete.  A variant that always
\* queues the step.
RunsNowNever(c) == FALSE

\* DynamicSpace.whenComplete: if (this.complete) finalizeStep()
RunsNow(c) == c

\* DynamicSpace.whenComplete(finalizeStep); the step is numbered by its
\* registration
whenComplete ==
    /\ ops < MaxOps
    /\ registered' = registered + 1
    /\ IF RunsNow(complete)
       THEN /\ invoked' = Append(invoked, registered + 1)
            /\ UNCHANGED completions
       ELSE /\ completions' = Append(completions, registered + 1)
            /\ UNCHANGED invoked
    /\ lastOp' = [NoOp EXCEPT !.op = "whenComplete", !.wasFinal = final.set,
                              !.wasComplete = complete,
                              !.hadSegment = segment.set]
    /\ ops' = ops + 1
    /\ UNCHANGED <<spaceClass, map, fromParams, final, complete, refineSeg,
                   segment, log, builds, returned>>
    /\ UNCHANGED <<execVars, exprVars, pipeVars, moreVars>>

(***************************************************************************)
(* DynamicSpace.structDef                                                  *)
(***************************************************************************)
\* field.fieldDef() of an entry; typ "none" stands for undefined
fieldDefOf(e) == FieldDef(e.name, e.typ, e.et)

\* const reorderFields = [...fields, ...joins, ...turtles]
reorderFields(m) ==
    LET joins == SelectSeq(m, IsStructSpaceField)
        turtles == SelectSeq(m, LAMBDA e : ~IsStructSpaceField(e) /\ IsQueryField(e))
        fields == SelectSeq(m, LAMBDA e : /\ ~IsStructSpaceField(e)
                                          /\ ~IsQueryField(e)
                                          /\ IsSpaceField(e))
    IN fields \o joins \o turtles

\* Whether pushing this entry throws "'x' doesn't have a FieldDef"
NoFieldDef(e) == e.cls # "JoinSpaceField" /\ e.typ = "none"

\* Whether the entry contributes a field: a join whose StructDef is the
\* error sentinel is skipped
Pushes(e) == ~(e.cls = "JoinSpaceField" /\ e.typ = "error")

\* The part of the list the loop gets through before it throws
BuiltPrefix(r) ==
    IF \E i \in 1..Len(r) : NoFieldDef(r[i])
    THEN SubSeq(r, 1, (CHOOSE i \in 1..Len(r) :
                          /\ NoFieldDef(r[i])
                          /\ \A j \in 1..(i - 1) : ~NoFieldDef(r[j])) - 1)
    ELSE r

BuildThrows(m) == \E i \in 1..Len(m) : IsSpaceField(m[i]) /\ NoFieldDef(m[i])

\* what the build logs: field.fieldDef() compiles every declared field it
\* gets to
RECURSIVE CompileLogs(_)
CompileLogs(r) ==
    IF r = <<>> THEN <<>> ELSE CompileLog(Head(r)) \o CompileLogs(Tail(r))

BuildLog(m) == CompileLogs(BuiltPrefix(reorderFields(m)))

\* parameters of the StructDef: fromStruct.parameters plus every SpaceParam
Parameters(m) ==
    {fromParams[i] : i \in 1..Len(fromParams)}
        \cup {m[i].name : i \in {j \in 1..Len(m) : IsSpaceParam(m[j])}}

\* this.final as the first call leaves it
BuildFinal(m) ==
    LET kept == SelectSeq(BuiltPrefix(reorderFields(m)), Pushes)
    IN [set |-> TRUE,
        fields |-> [i \in 1..Len(kept) |-> fieldDefOf(kept[i])],
        parameters |-> IF BuildThrows(m) THEN {} ELSE Parameters(m)]

\* The test that guards the build.  A variant that rebuilds on every call.
NeedsBuildAlways(f) == TRUE

\* if (this.final === undefined)
NeedsBuild(f) == ~f.set

\* DynamicSpace.structDef()
structDef ==
    /\ ops < MaxOps
    /\ LET build == NeedsBuild(final)
           throws == build /\ BuildThrows(map)
           f == IF build THEN BuildFinal(map) ELSE final
       IN /\ final' = f
          /\ builds' = IF build THEN builds + 1 ELSE builds
          /\ log' = IF build THEN log \o BuildLog(map) ELSE log
          /\ IF throws
             THEN UNCHANGED <<complete, invoked, completions, returned>>
             ELSE /\ isComplete
                  /\ returned' = Append(returned, f)
          /\ lastOp' = [NoOp EXCEPT !.op = "structDef", !.wasFinal = final.set,
                                    !.wasComplete = complete,
                                    !.hadSegment = segment.set,
                                    !.logged = (build /\ BuildLog(map) # <<>>),
                                    !.threw = throws]
    /\ ops' = ops + 1
    /\ UNCHANGED <<spaceClass, map, fromParams, refineSeg, segment, registered>>
    /\ UNCHANGED <<execVars, exprVars, pipeVars, moreVars>>

(***************************************************************************)
(* ResultSpace: the output side of a segment.  Names are resolved in the   *)
(* input space (exprSpace), which here is a fixed source: a dimension, a   *)
(* measure and a turtle.                                                   *)
(***************************************************************************)
InputStruct ==
    <<FieldDef("a", "atomic", "scalar"), FieldDef("b", "atomic", "aggregate"),
      FieldDef("c", "turtle", "scalar")>>

\* names a query may refer to; "d" is not defined in the input space
RefNames == Names \cup {"d"}

\* getStructFieldDef / lookup of a one-name path in the input space
InputDefined(n) == \E i \in 1..Len(InputStruct) : InputStruct[i].name = n

InputField(n) == InputStruct[CHOOSE i \in 1..Len(InputStruct) : InputStruct[i].name = n]

\* A QueryFieldDef: a bare name (form "name") or a definition (form "def")
QueryFieldDef(n, f, t, x) == [name |-> n, form |-> f, typ |-> t, et |-> x]

\* ResultSpace.addReference
addReference(n) ==
    /\ spaceClass # "DynamicSpace"
    /\ Write("addReference", n,
             IF entry(map, n)
             THEN Logged(Outcome(map, log), "Output already has a field named")
             ELSE setEntry(Outcome(map, log), n,
                           Entry(n, "ReferenceField", "none", "scalar")))

\* ResultSpace.addWild
addWild ==
    /\ spaceClass # "DynamicSpace"
    /\ Write("addWild", "*",
             setEntry(Outcome(map, log), "*",
                      Entry("*", "WildSpaceField", "none", "scalar")))

\* ResultSpace.addQueryItems, isNestedQuery(qi) and qi no NestReference
addQueryItems_NestDefinition(n) ==
    /\ spaceClass # "DynamicSpace"
    /\ Write("addQueryItems", n,
             setEntry(Outcome(map, log), n,
                      Entry(n, "QueryFieldAST", "turtle", "scalar")))

\* SpaceField.getQueryFieldDef and its overrides; form "none" stands for
\* undefined
getQueryFieldDef(e) ==
    IF e.cls \in {"ReferenceField", "WildSpaceField"}
        THEN QueryFieldDef(e.name, "name", "ref", "scalar")
    ELSE IF e.cls = "ExpressionFieldFromAst"
        THEN QueryFieldDef(e.name, "def", e.typ, e.et)
    ELSE IF IsQueryField(e)
        THEN QueryFieldDef(e.name, "def", "turtle", "scalar")
    ELSE QueryFieldDef(e.name, "none", "none", "scalar")

\* ReferenceField.getQueryFieldDef logs a failed lookup
ReferenceLog(e) ==
    IF e.cls = "ReferenceField" /\ ~InputDefined(e.name)
    THEN <<"is not defined">> ELSE <<>>

\* ResultSpace.canContain
ResultCanContain(qd) == TRUE

\* ProjectFieldSpace.canContain
ProjectCanContain(qd) ==
    IF qd.form = "name" THEN TRUE
    ELSE IF qd.typ = "turtle" THEN FALSE
    ELSE IF qd.et = "aggregate" THEN FALSE
    ELSE TRUE

canContain(qd) ==
    IF spaceClass = "ProjectFieldSpace" THEN ProjectCanContain(qd)
    ELSE ResultCanContain(qd)

\* what canContain and queryFieldDefs log for a rejected member
RejectLog(qd) ==
    <<IF qd.typ = "turtle" THEN "Cannot nest queries in project"
      ELSE "Cannot add aggregate measures to project",
      "not legal in project">>

\* ResultSpace.queryFieldDefs over the entries from position i on:
\* the fields, the log, and whether an entry without a QueryFieldDef threw
RECURSIVE queryFieldDefsFrom(_, _, _)
queryFieldDefsFrom(m, i, acc) ==
    IF i > Len(m) THEN acc
    ELSE IF ~IsSpaceField(m[i]) THEN queryFieldDefsFrom(m, i + 1, acc)
    ELSE LET qd == getQueryFieldDef(m[i])
             l == acc.log \o ReferenceLog(m[i]) \o CompileLog(m[i])
         IN IF qd.form = "none" THEN [acc EXCEPT !.threw = TRUE]
            ELSE IF canContain(qd)
            THEN queryFieldDefsFrom(m, i + 1,
                     [acc EXCEPT !.fields = Append(@, qd), !.log = l])
            ELSE queryFieldDefsFrom(m, i + 1,
                     [acc EXCEPT !.log = l \o RejectLog(qd)])

queryFieldDefs(m, l) ==
    queryFieldDefsFrom(m, 1, [fields |-> <<>>, log |-> l, threw |-> FALSE])

\* mergeFields(older, newer) of ../field-utils: the older fields that the
\* newer ones do not redefine, then the newer ones
mergeFields(older, newer) ==
    SelectSeq(older, LAMBDA f : \A i \in 1..Len(newer) : newer[i].name # f.name)
        \o newer

\* this.segmentType
segmentType == IF spaceClass = "ProjectFieldSpace" THEN "project" ELSE "reduce"

\* ResultSpace.getPipeSegment(refineFrom): queryFieldDefs() completes the
\* space; this.final is not assigned
getPipeSegment ==
    /\ spaceClass # "DynamicSpace"
    /\ ops < MaxOps
    /\ LET q == queryFieldDefs(map, log)
       IN /\ log' = q.log
          /\ IF q.threw
             THEN UNCHANGED <<segment, complete, invoked, completions>>
             ELSE /\ segment' = [set |-> TRUE, type |-> segmentType,
                                 fields |-> mergeFields(refineSeg.fields, q.fields)]
                  /\ isComplete
          /\ lastOp' = [NoOp EXCEPT !.op = "getPipeSegment",
                                    !.wasFinal = final.set,
                                    !.wasComplete = complete,
                                    !.hadSegment = segment.set,
                                    !.logged = (q.log # log),
                                    !.threw = q.threw]
    /\ ops' = ops + 1
    /\ UNCHANGED <<spaceClass, map, fromParams, final, refineSeg, registered,
                   builds, returned>>
    /\ UNCHANGED <<execVars, exprVars, pipeVars, moreVars>>

(***************************************************************************)
(* Segment executors: QOPDesc.getOp builds one segment from a list of      *)
(* query properties, possibly refining an existing segment.                *)
(***************************************************************************)
\* optional values: a property that is absent (undefined) or present
Some(v) == [set |-> TRUE, v |-> v]
NoNumber == [set |-> FALSE, v |-> 0]
NoString == [set |-> FALSE, v |-> ""]
NoList == [set |-> FALSE, v |-> <<>>]

\* if (x) for a number | undefined
TruthyNumber(o) == o.set /\ o.v # 0

\* model.PipeSegment
PipeSegment(t, f) ==
    [set |-> TRUE, type |-> t, fields |-> f, orderBy |-> NoString, by |-> NoString,
     limit |-> NoNumber, filterList |-> NoList, extendSource |-> NoList,
     weightMeasure |-> NoString, sample |-> NoString]

\* no segment (refineThis undefined)
NoSegment == [PipeSegment("none", <<>>) EXCEPT !.set = FALSE]

\* a member of a segment given by name
NameRef(n) == QueryFieldDef(n, "name", "ref", "scalar")

\* a query property: its class, its number (limit) and its tag (by, weightBy);
\* a Filter has its elementType and its list of elements
Prop(k, n, t) ==
    [kind |-> k, n |-> n, tag |-> t, elementType |-> "", list |-> <<>>]

\* what FilterElement.filterExpression returns: the source of the expression
\* and its expressionType
FilterExpression(code, et) == [code |-> code, expressionType |-> et]

\* new Filter(elements), elementType "filter"; the having setter makes it
\* "having" or "where"
Filter(elementType, elements) ==
    [Prop("Filter", 0, "") EXCEPT !.elementType = elementType, !.list = elements]

\* QOPDesc.computeType, the loop over this.list from position i on
RECURSIVE computeTypeFrom(_, _, _, _, _)
computeTypeFrom(list, i, firstGuess, anyGrouping, l) ==
    IF i > Len(list)
    THEN [firstGuess |-> firstGuess, anyGrouping |-> anyGrouping, log |-> l]
    ELSE LET el == list[i] IN
         IF el.kind = "Index"
         THEN LET g == IF firstGuess = "" THEN "index" ELSE firstGuess
              IN computeTypeFrom(list, i + 1, g, anyGrouping,
                     IF g # "index"
                     THEN Append(l, "index: not legal in " \o g \o " query")
                     ELSE l)
         ELSE IF el.kind \in {"Nests", "NestedQuery", "GroupBy"}
         THEN LET g == IF firstGuess = "" THEN "grouping" ELSE firstGuess
              IN computeTypeFrom(list, i + 1, g, TRUE,
                     IF g \in {"project", "index"}
                     THEN Append(l, "group_by: not legal in " \o g \o " query")
                     ELSE l)
         ELSE IF el.kind = "Aggregate"
         THEN LET g == IF firstGuess = "" THEN "aggregate" ELSE firstGuess
              IN computeTypeFrom(list, i + 1, g, anyGrouping,
                     IF g \in {"project", "index"}
                     THEN Append(l, "aggregate: not legal in " \o g \o " query")
                     ELSE l)
         ELSE IF el.kind = "ProjectStatement"
         THEN LET g == IF firstGuess = "" THEN "project" ELSE firstGuess
              IN computeTypeFrom(list, i + 1, g, anyGrouping,
                     IF g # "project"
                     THEN Append(l, "project: not legal in " \o g \o " query")
                     ELSE l)
         ELSE computeTypeFrom(list, i + 1, firstGuess, anyGrouping, l)

\* if (this.refineThis) firstGuess = reduce ? "grouping" : refineThis.type
RefinedGuess(seg) ==
    IF ~seg.set THEN ""
    ELSE IF seg.type = "reduce" THEN "grouping" ELSE seg.type

\* QOPDesc.computeType without if (firstGuess === "aggregate" && anyGrouping)
computeTypeFirstGuess(list, seg, l) ==
    LET r == computeTypeFrom(list, 1, RefinedGuess(seg), FALSE, l)
        g == r.firstGuess
    IN [opType |-> IF g = "" THEN "grouping" ELSE g,
        log |-> IF g = ""
                THEN Append(r.log,
                    "Can't determine query type (group_by/aggregate/nest,project,index)")
                ELSE r.log]

\* QOPDesc.computeType: the type and the diagnostics
computeType(list, seg, l) ==
    LET r == computeTypeFrom(list, 1, RefinedGuess(seg), FALSE, l)
        g == IF r.firstGuess = "aggregate" /\ r.anyGrouping
             THEN "grouping" ELSE r.firstGuess
    IN [opType |-> IF g = "" THEN "grouping" ELSE g,
        log |-> IF g = ""
                THEN Append(r.log,
                    "Can't determine query type (group_by/aggregate/nest,project,index)")
                ELSE r.log]

\* QOPDesc.getExecutor
ExecutorFor(guessType) ==
    IF guessType \in {"aggregate", "grouping"} THEN "reduce" ELSE guessType

getExecutor ==
    /\ pc = "start"
    /\ LET t == computeType(qop, refineThis, exLog)
       IN /\ opType' = t.opType
          /\ executor' = ExecutorFor(t.opType)
          /\ exLog' = t.log
    /\ pc' = "execute"
    /\ qi' = 1
    /\ UNCHANGED <<qop, refineThis, exFilters, exOrder, exLimit, exFields,
                   opSegment>>
    /\ UNCHANGED <<spaceVars, exprVars, pipeVars, moreVars>>

\* executor state: filters, order, limit, sample, indexOn, result fields, log
ExState == [filters |-> exFilters, order |-> exOrder, limit |-> exLimit,
            fields |-> exFields, log |-> exLog]

NoOrder == [set |-> FALSE, kind |-> "", tag |-> ""]

\* ResultSpace.addReference for a member given by name
AddMember(st, n) ==
    IF \E i \in 1..Len(st.fields) : st.fields[i].name = n
    THEN [st EXCEPT !.log = Append(@, "Output already has a field named")]
    ELSE [st EXCEPT !.fields = Append(@, NameRef(n))]

\* model.expressionIsCalculation
expressionIsCalculation(et) == et \in {"aggregate", "analytic"}

\* Filter.havingClause: declared, assigned nowhere (the having setter
\* assigns elementType)
havingClause(qp) == [set |-> FALSE, v |-> FALSE]

\* Filter.getFilterList, the loop over this.list from position i on
RECURSIVE getFilterListFrom(_, _, _, _)
getFilterListFrom(qp, i, checked, l) ==
    IF i > Len(qp.list) THEN [checked |-> checked, log |-> l]
    ELSE LET fExpr == qp.list[i] IN
         IF havingClause(qp).set
                /\ havingClause(qp).v
                /\ expressionIsCalculation(fExpr.expressionType)
         THEN getFilterListFrom(qp, i + 1, checked,
                  Append(l, "Aggregate or Analytical expression expected in HAVING filter"))
         ELSE IF havingClause(qp).set
                /\ ~havingClause(qp).v
                /\ fExpr.expressionType # "scalar"
         THEN getFilterListFrom(qp, i + 1, checked,
                  Append(l, "Aggregate or Analytical expressions not allowed in WHERE"))
         ELSE getFilterListFrom(qp, i + 1, Append(checked, fExpr.code), l)

\* Filter.getFilterList
getFilterList(qp, l) == getFilterListFrom(qp, 1, <<>>, l)

\* this.filters.push(...qp.getFilterList(this.inputFS))
PushFilters(st, qp) ==
    LET r == getFilterList(qp, st.log)
    IN [st EXCEPT !.filters = @ \o r.checked, !.log = r.log]

\* if (this.limit)
AlreadyLimited(l) == TruthyNumber(l)

\* ReduceExecutor.execute
ReduceExecute(st, qp) ==
    IF qp.kind = "GroupBy" THEN AddMember(st, "g")
    ELSE IF qp.kind = "Aggregate" THEN AddMember(st, "m")
    ELSE IF qp.kind = "Filter"
        THEN PushFilters(st, qp)
    ELSE IF qp.kind = "Top"
        THEN LET a == IF AlreadyLimited(st.limit)
                      THEN [st EXCEPT !.log = Append(@, "Query operation already limited")]
                      ELSE [st EXCEPT !.limit = Some(qp.n)]
             IN IF qp.tag = "" THEN a
                ELSE IF a.order.set
                THEN [a EXCEPT !.log = Append(@, "Query operation is already sorted")]
                ELSE [a EXCEPT !.order = [set |-> TRUE, kind |-> "Top", tag |-> qp.tag]]
    ELSE IF qp.kind = "Limit"
        THEN IF AlreadyLimited(st.limit)
             THEN [st EXCEPT !.log = Append(@, "Query operation already limited")]
             ELSE [st EXCEPT !.limit = Some(qp.n)]
    ELSE IF qp.kind = "Ordering"
        THEN IF st.order.set
             THEN [st EXCEPT !.log = Append(@, "Query operation already sorted")]
             ELSE [st EXCEPT !.order = [set |-> TRUE, kind |-> "Ordering", tag |-> qp.tag]]
    ELSE st

\* ProjectExecutor.execute
ProjectExecute(st, qp) ==
    IF qp.kind = "ProjectStatement" THEN AddMember(st, "p")
    ELSE IF (qp.kind = "Filter" /\ qp.elementType = "having") \/ qp.kind = "GroupBy"
        THEN [st EXCEPT !.log = Append(@, "Illegal statement in a project query operation")]
    ELSE ReduceExecute(st, qp)

\* IndexFieldSpace.addReference: fieldList is a Set
AddIndexField(st, n) ==
    IF \E i \in 1..Len(st.fields) : st.fields[i].name = n THEN st
    ELSE [st EXCEPT !.fields = Append(@, NameRef(n))]

\* IndexExecutor.execute; limit holds the Limit element, sample the Sampling
IndexExecute(st, qp) ==
    IF qp.kind = "Filter"
        THEN PushFilters(st, qp)
    ELSE IF qp.kind = "Limit"
        THEN [st EXCEPT !.limit = Some(qp.n),
                        !.log = IF st.limit.set
                                THEN Append(@, "Ignored, too many limit: statements")
                                ELSE @]
    ELSE IF qp.kind = "Index" THEN AddIndexField(st, "i")
    ELSE [st EXCEPT !.log = Append(@, "Not legal in an index query operation")]

\* qex.execute(qp) for the next property of the list
execute ==
    /\ pc = "execute"
    /\ qi <= Len(qop)
    /\ LET st == IF executor = "reduce" THEN ReduceExecute(ExState, qop[qi])
                 ELSE IF executor = "project" THEN ProjectExecute(ExState, qop[qi])
                 ELSE IndexExecute(ExState, qop[qi])
       IN /\ exFilters' = st.filters
          /\ exOrder' = st.order
          /\ exLimit' = st.limit
          /\ exFields' = st.fields
          /\ exLog' = st.log
    /\ qi' = qi + 1
    /\ UNCHANGED <<qop, refineThis, pc, opType, executor, opSegment>>
    /\ UNCHANGED <<spaceVars, exprVars, pipeVars, moreVars>>

\* ResultSpace.getPipeSegment as the executor uses it: the fields, and the
\* extendSource of the refined segment
QuerySegmentFrom(from, type) ==
    [PipeSegment(type, mergeFields(from.fields, exFields))
        EXCEPT !.extendSource = from.extendSource]

\* const oldFilters = from?.filterList || []; the array is always truthy,
\* so filterList is always assigned
RefinedFilterList(from, filters) == Some(from.filterList.v \o filters)

\* ReduceExecutor.refineFrom(from, to)
refineFrom(from, to) ==
    LET inherits == from.set /\ from.type # "index"
        a == IF inherits /\ ~exOrder.set
             THEN IF from.orderBy.set THEN [to EXCEPT !.orderBy = from.orderBy]
                  ELSE IF from.by.set THEN [to EXCEPT !.by = from.by]
                  ELSE to
             ELSE to
        b == IF inherits /\ ~TruthyNumber(exLimit) /\ TruthyNumber(from.limit)
             THEN [a EXCEPT !.limit = from.limit] ELSE a
        c == IF TruthyNumber(exLimit) THEN [b EXCEPT !.limit = exLimit] ELSE b
        d == IF exOrder.set /\ exOrder.kind = "Top"
             THEN [c EXCEPT !.by = Some(exOrder.tag)] ELSE c
        e == IF exOrder.set /\ exOrder.kind = "Ordering"
             THEN [d EXCEPT !.orderBy = Some(exOrder.tag)] ELSE d
    IN [e EXCEPT !.filterList = RefinedFilterList(from, exFilters)]

\* ErrorFactory.reduceSegment / projectSegment / indexSegment
ErrorSegment(type) == PipeSegment(type, <<>>)

\* ReduceExecutor.finalize and ProjectExecutor.finalize
QueryFinalize(from, type) ==
    IF from.set /\ from.type # type
    THEN [seg |-> ErrorSegment(type), log |-> Append(exLog, "Can't refine")]
    ELSE [seg |-> refineFrom(from, QuerySegmentFrom(from, type)), log |-> exLog]

\* IndexFieldSpace.getPipeSegment: the fields indexed here, then those of
\* the refined segment
IndexFields(from) ==
    exFields \o SelectSeq(from.fields,
                    LAMBDA f : \A i \in 1..Len(exFields) : exFields[i].name # f.name)

\* IndexExecutor.finalize
IndexFinalize(from) ==
    IF from.set /\ from.type # "index"
    THEN [seg |-> ErrorSegment("index"), log |-> Append(exLog, "Can't refine")]
    ELSE LET a == [PipeSegment("index", IndexFields(from))
                      EXCEPT !.filterList = RefinedFilterList(from, exFilters)]
             b == IF TruthyNumber(from.limit) THEN [a EXCEPT !.limit = from.limit] ELSE a
             c == IF exLimit.set THEN [b EXCEPT !.limit = exLimit] ELSE b
             d == IF from.sample.set THEN [c EXCEPT !.sample = from.sample] ELSE c
         IN [seg |-> d, log |-> exLog]

\* qex.finalize(this.refineThis)
finalize ==
    /\ pc = "execute"
    /\ qi > Len(qop)
    /\ LET r == IF executor = "index" THEN IndexFinalize(refineThis)
                ELSE QueryFinalize(refineThis, executor)
       IN /\ opSegment' = r.seg
          /\ exLog' = r.log
    /\ pc' = "done"
    /\ UNCHANGED <<qop, refineThis, qi, opType, executor, exFilters, exOrder,
                   exLimit, exFields>>
    /\ UNCHANGED <<spaceVars, exprVars, pipeVars, moreVars>>

\* the query properties a segment is written with
Props ==
    { Prop("GroupBy", 0, ""), Prop("Aggregate", 0, ""),
      Prop("ProjectStatement", 0, ""), Prop("Index", 0, ""),
      Filter("filter", <<FilterExpression("f1", "scalar")>>),
      Filter("where", <<FilterExpression("f1", "scalar"),
                        FilterExpression("f2", "aggregate")>>),
      Filter("having", <<FilterExpression("f3", "analytic"),
                         FilterExpression("f1", "scalar")>>),
      Prop("Ordering", 0, "o1"),
      Prop("Top", 3, ""), Prop("Top", 3, "t1"),
      Prop("Limit", 0, ""), Prop("Limit", 5, "") }

PropLists == UNION { [1..n -> Props] : n \in 0..MaxProps }

\* segments of existing queries and turtles that a refinement is applied to
ExistingSegments ==
    { [PipeSegment("reduce", <<NameRef("g")>>)
          EXCEPT !.orderBy = Some("o0"), !.limit = Some(7),
                 !.filterList = Some(<<"f0">>), !.extendSource = Some(<<"x">>)],
      [PipeSegment("reduce", <<NameRef("g")>>) EXCEPT !.by = Some("t0")],
      [PipeSegment("project", <<NameRef("p")>>)
          EXCEPT !.limit = Some(7), !.filterList = Some(<<>>)],
      [PipeSegment("index", <<NameRef("i")>>)
          EXCEPT !.limit = Some(7), !.filterList = Some(<<"f0">>),
                 !.sample = Some("s0")] }

(***************************************************************************)
(* Binary operators: applyBinary and the functions it dispatches to.       *)
(* An operand is an expression node reduced to what getExpression returns  *)
(* for it: class is "duration" for an ExprDuration node (n is the dataType *)
(* of its count, unit its timeframe) and "expr" for any other node.        *)
(***************************************************************************)
Operand(c, dt, et, tf, m, raw, n, u) ==
    [class |-> c, dataType |-> dt, expressionType |-> et, timeframe |-> tf,
     morphic |-> m, rawType |-> raw, n |-> n, unit |-> u]

Plain(dt, et) == Operand("expr", dt, et, "", FALSE, "", "", "")

\* ExprDuration.getExpression
Duration(n, u) == Operand("duration", "duration", "scalar", "", FALSE, "", n, u)

\* an ExprValue, reduced to its type, its kind, its granularity and the
\* shape of its fragment
ExprValue(dt, et, v, tf) ==
    [dataType |-> dt, expressionType |-> et, value |-> v, timeframe |-> tf]

NoValue == ExprValue("", "", "", "")

\* what an application does: returns a value or throws, and logs
Returns(v, l) == [result |-> v, log |-> l, threw |-> FALSE]
Throws(l) == [result |-> NoValue, log |-> l, threw |-> TRUE]

isEquality(o) == o \in {"=", "!=", "~", "!~"}
isComparison(o) == o \in {"<", "<=", ">", ">="}
isTimeFieldType(dt) == dt \in {"date", "timestamp"}
isGranularResult(v) == v.timeframe # ""
isDateUnit(u) == u \in {"day", "week", "month", "quarter", "year"}

\* mixing scalar with aggregate gives aggregate
maxExpressionType(a, b) == IF "aggregate" \in {a, b} THEN "aggregate" ELSE "scalar"

errorFor(reason) == ExprValue("error", "scalar", reason, "")

timeResult(v, granularity) == [v EXCEPT !.timeframe = granularity]

\* errorCascade(dataType, lhs, rhs): defined when an operand is an error
IsErrorCascade(lhs, rhs) == lhs.dataType = "error" \/ rhs.dataType = "error"

errorCascade(dt, lhs, rhs) ==
    ExprValue(dt, maxExpressionType(lhs.expressionType, rhs.expressionType),
              "cascading error", "")

\* unsupportError(l, lhs, r, rhs): defined when an operand is unsupported
IsUnsupportError(lhs, rhs) ==
    lhs.dataType = "unsupported" \/ rhs.dataType = "unsupported"

unsupportError(lhs, rhs, l) ==
    Returns(ExprValue(IF lhs.dataType = "unsupported" THEN rhs.dataType
                      ELSE lhs.dataType,
                      maxExpressionType(lhs.expressionType, rhs.expressionType),
                      "unsupported operation", ""),
            Append(l, "Unsupported type not allowed in expression"))

\* ev.value, the fragment of an operand: its type in braces
ValueOf(ev) == "{" \o ev.dataType \o "}"

\* ev.morphic['timestamp'], the timestamp rendering of a morphic operand
MorphicTimestamp(ev) == "{" \o ev.dataType \o " as timestamp}"

\* compose(left, op, right): the fragments with the operator between them
compose(l, o, r) == l \o o \o r

\* willMorphTo(ev, 'timestamp') is defined
willMorphTo(ev) == ev.dataType = "timestamp" \/ ev.morphic

\* what willMorphTo(ev, 'timestamp') returns when it is defined
MorphedTo(ev) ==
    IF ev.dataType = "timestamp" THEN ValueOf(ev) ELSE MorphicTimestamp(ev)

\* timeCompare: the fragment ("" for undefined) and whether it logs
timeCompare(lhs, o, rhs) ==
    LET leftIsTime == isTimeFieldType(lhs.dataType)
        rightIsTime == isTimeFieldType(rhs.dataType)
    IN IF leftIsTime /\ rightIsTime /\ lhs.dataType = rhs.dataType
       THEN [value |-> compose(ValueOf(lhs), o, ValueOf(rhs)), logs |-> FALSE]
       ELSE IF leftIsTime /\ rightIsTime /\ willMorphTo(lhs) /\ willMorphTo(rhs)
       THEN [value |-> compose(MorphedTo(lhs), o, MorphedTo(rhs)), logs |-> FALSE]
       ELSE IF (leftIsTime \/ rightIsTime)
               /\ lhs.dataType # "null" /\ rhs.dataType # "null"
       THEN [value |-> "false", logs |-> TRUE]
       ELSE [value |-> "", logs |-> FALSE]

\* timeCompare(left, lhs, op, rhs) || compose(lhs.value, op, rhs.value)
Compared(lhs, o, rhs, l) ==
    LET t == timeCompare(lhs, o, rhs)
    IN [value |-> IF t.value = "" THEN compose(ValueOf(lhs), o, ValueOf(rhs))
                  ELSE t.value,
        log |-> IF t.logs THEN Append(l, "Cannot compare") ELSE l]

\* regexEqual: whether it yields a regexpMatch
regexEqual(lhs, rhs) ==
    IF lhs.dataType = "string" THEN rhs.dataType = "regular expression"
    ELSE rhs.dataType = "string" /\ lhs.dataType = "regular expression"

\* nullCompare: the fragment, "" for undefined
nullCompare(lhs, o, rhs) ==
    LET not == o \in {"!=", "!~"}
    IN IF lhs.dataType = "null" \/ rhs.dataType = "null"
       THEN IF lhs.dataType # "null"
            THEN ValueOf(lhs) \o (IF not THEN " IS NOT NULL" ELSE " IS NULL")
            ELSE IF rhs.dataType # "null"
            THEN ValueOf(rhs) \o (IF not THEN "IS NOT NULL" ELSE "IS NULL")
            ELSE IF not THEN "false" ELSE "true"
       ELSE ""

nullsafeNot(v, o) == IF o \in {"!=", "!~"} THEN "not " \o v ELSE v

equality(lhs, o, rhs, l) ==
    LET et == maxExpressionType(lhs.expressionType, rhs.expressionType)
        oneNull == lhs.dataType = "null" \/ rhs.dataType = "null"
        rawMatch == lhs.rawType # "" /\ lhs.rawType = rhs.rawType
        c == Compared(lhs, o, rhs, l)
    IN IF IsErrorCascade(lhs, rhs) THEN Returns(errorCascade("boolean", lhs, rhs), l)
       ELSE IF IsUnsupportError(lhs, rhs) /\ ~(oneNull \/ rawMatch)
       THEN LET u == unsupportError(lhs, rhs, l)
            IN Returns([u.result EXCEPT !.dataType = "boolean"], u.log)
       ELSE IF o \in {"~", "!~"}
       THEN IF lhs.dataType = "string" /\ rhs.dataType = "string"
            THEN Returns(ExprValue("boolean", et,
                             nullsafeNot(compose(ValueOf(lhs), "LIKE", ValueOf(rhs)), o),
                             ""), c.log)
            ELSE IF regexEqual(lhs, rhs)
            THEN Returns(ExprValue("boolean", et, nullsafeNot("regexpMatch", o), ""),
                         c.log)
            ELSE Throws(c.log)
       ELSE IF nullCompare(lhs, o, rhs) # ""
            THEN Returns(ExprValue("boolean", et, nullCompare(lhs, o, rhs), ""), c.log)
            ELSE Returns(ExprValue("boolean", et,
                             nullsafeNot(IF regexEqual(lhs, rhs) THEN "regexpMatch"
                                         ELSE compose(ValueOf(lhs), "=", ValueOf(rhs)),
                                         o), ""), c.log)

compare(lhs, o, rhs, l) ==
    IF IsErrorCascade(lhs, rhs) THEN Returns(errorCascade("boolean", lhs, rhs), l)
    ELSE IF IsUnsupportError(lhs, rhs)
    THEN LET u == unsupportError(lhs, rhs, l)
         IN Returns([u.result EXCEPT !.dataType = "boolean"], u.log)
    ELSE LET c == Compared(lhs, o, rhs, l)
         IN Returns(ExprValue("boolean",
                        maxExpressionType(lhs.expressionType, rhs.expressionType),
                        c.value, ""), c.log)

numeric(lhs, o, rhs, l) ==
    IF IsErrorCascade(lhs, rhs) THEN Returns(errorCascade("number", lhs, rhs), l)
    ELSE IF IsUnsupportError(lhs, rhs) THEN unsupportError(lhs, rhs, l)
    ELSE IF lhs.dataType = "number" /\ rhs.dataType = "number"
    THEN Returns(ExprValue("number",
                     maxExpressionType(lhs.expressionType, rhs.expressionType),
                     compose(ValueOf(lhs), o, ValueOf(rhs)), ""), l)
    ELSE Returns(errorFor("numbers required"), Append(l, "Non numeric value"))

\* ExprDuration.typeCheck(this, lhs); legalChildTypes are timestamp and date
typeCheck(lhs, l) ==
    IF lhs.dataType # "error" /\ ~isTimeFieldType(lhs.dataType)
    THEN Append(l, "'duration' Can't use type") ELSE l

\* ExprDuration.apply without the test lhs.timeframe === this.timeframe
DurationOffsetGranular(lhs, num, unit, l) ==
    LET et == maxExpressionType(lhs.expressionType, num.expressionType)
        resultGranularity ==
            IF isGranularResult(lhs) THEN lhs.timeframe ELSE ""
    IN IF num.dataType # "number"
       THEN Returns(errorFor("illegal unit expression"),
                    Append(l, "Duration units needs number"))
       ELSE IF lhs.dataType = "timestamp"
       THEN Returns(timeResult(ExprValue("timestamp", et, "timeOffset", ""),
                               resultGranularity), l)
       ELSE IF isDateUnit(unit)
       THEN Returns(timeResult(ExprValue("date", et, "timeOffset", ""),
                               resultGranularity), l)
       ELSE Returns(errorFor("ofsset date error"), Append(l, "Cannot offset date by"))

\* ExprDuration.apply when lhs is a time and op is + or -: num is the
\* duration's count, unit its timeframe
DurationOffset(lhs, num, unit, l) ==
    LET et == maxExpressionType(lhs.expressionType, num.expressionType)
        resultGranularity ==
            IF isGranularResult(lhs) /\ lhs.timeframe = unit THEN lhs.timeframe ELSE ""
    IN IF num.dataType # "number"
       THEN Returns(errorFor("illegal unit expression"),
                    Append(l, "Duration units needs number"))
       ELSE IF lhs.dataType = "timestamp"
       THEN Returns(timeResult(ExprValue("timestamp", et, "timeOffset", ""),
                               resultGranularity), l)
       ELSE IF isDateUnit(unit)
       THEN Returns(timeResult(ExprValue("date", et, "timeOffset", ""),
                               resultGranularity), l)
       ELSE Returns(errorFor("ofsset date error"), Append(l, "Cannot offset date by"))

\* the count of an ExprDuration node as getExpression gives it
CountOf(d) == Plain(d.n, "scalar")

\* delta: + and -
delta(lhs, o, rhs, l) ==
    IF IsUnsupportError(lhs, rhs) THEN unsupportError(lhs, rhs, l)
    ELSE IF IsErrorCascade(lhs, rhs)
    THEN Returns(errorCascade(IF isTimeFieldType(lhs.dataType) THEN "error"
                              ELSE "number", lhs, rhs), l)
    ELSE IF isTimeFieldType(lhs.dataType)
    THEN IF rhs.dataType = "duration"
         THEN DurationOffset(lhs, CountOf(rhs), rhs.unit, l)
         ELSE IF isGranularResult(lhs) THEN DurationOffset(lhs, rhs, lhs.timeframe, l)
         ELSE IF lhs.dataType = "date" THEN DurationOffset(lhs, rhs, "day", l)
         ELSE Returns(errorFor("time plus"), Append(l, "Can not offset time by"))
    ELSE numeric(lhs, o, rhs, l)

\* the division branch of applyBinary
division(num, denom, l) ==
    IF IsUnsupportError(num, denom)
    THEN LET u == unsupportError(num, denom, l)
         IN Returns(u.result, Append(u.log, "Cannot operate with unsupported type"))
    ELSE IF IsErrorCascade(num, denom)
    THEN Returns(errorCascade("number", num, denom), l)
    ELSE IF num.dataType # "number"
    THEN Returns(errorFor("divide type mismatch"),
                 Append(l, "Numerator for division must be a number"))
    ELSE IF denom.dataType # "number"
    THEN Returns(errorFor("divide type mismatch"),
                 Append(l, "Denominator for division must be a number"))
    ELSE Returns(ExprValue("number",
                     maxExpressionType(num.expressionType, denom.expressionType),
                     "div", ""), l)

applyBinary(lhs, o, rhs, l) ==
    IF isEquality(o) THEN equality(lhs, o, rhs, l)
    ELSE IF isComparison(o) THEN compare(lhs, o, rhs, l)
    ELSE IF o \in {"+", "-"} THEN delta(lhs, o, rhs, l)
    ELSE IF o \in {"*", "%"} THEN numeric(lhs, o, rhs, l)
    ELSE IF o = "/" THEN division(lhs, rhs, l)
    ELSE Returns(errorFor("applybinary bad operator"),
                 Append(l, "Cannot use operator here"))

\* ExprDuration.apply
ExprDurationApply(lhs, o, d, l) ==
    IF isTimeFieldType(lhs.dataType) /\ o \in {"+", "-"}
    THEN DurationOffset(lhs, CountOf(d), d.unit, typeCheck(lhs, l))
    ELSE applyBinary(lhs, o, d, typeCheck(lhs, l))

\* right.apply(fs, op, left): the right operand's class decides
apply(lhs, o, rhs, l) ==
    IF rhs.class = "duration" THEN ExprDurationApply(lhs, o, rhs, l)
    ELSE applyBinary(lhs, o, rhs, l)

\* the operators of the language, and one that is none of them
Operators == {"=", "!=", "~", "!~", "<", "<=", ">", ">=", "+", "-", "*", "%", "/", "&"}

Operands ==
    { Plain(dt, et) : dt \in {"string", "number", "error"},
                      et \in {"scalar", "aggregate"} }
    \cup { Plain(dt, "scalar") : dt \in {"boolean", "null", "regular expression"} }
    \cup { Operand("expr", "date", "scalar", tf, m, "", "", "") :
               tf \in {"", "day"}, m \in BOOLEAN }
    \cup { Operand("expr", "timestamp", "scalar", tf, FALSE, "", "", "") :
               tf \in {"", "day", "hour"} }
    \cup { Operand("expr", "unsupported", "scalar", "", FALSE, raw, "", "") :
               raw \in {"json", "geo"} }
    \cup { Duration(n, u) : n \in {"number", "string"}, u \in {"day", "hour"} }

IdleExpr ==
    /\ left = Plain("null", "scalar")
    /\ right = Plain("null", "scalar")
    /\ operator = ""
    /\ applied = FALSE
    /\ result = NoValue
    /\ exprLog = <<>>
    /\ threw = FALSE
    /\ caller = ""
    /\ callerLog = <<>>
    /\ escaped = FALSE

\* expr.getExpression(fs) for a BinaryOp node: right.apply(fs, op, left)
Evaluate(r) ==
    /\ ~applied
    /\ operator # ""
    /\ result' = r.result
    /\ exprLog' = r.log
    /\ threw' = r.threw
    /\ applied' = TRUE
    /\ UNCHANGED <<left, right, operator>>
    /\ UNCHANGED <<spaceVars, execVars, pipeVars, moreVars>>

\* the BinaryOp node evaluated on its own
applyOperator ==
    /\ Evaluate(apply(left, operator, right, exprLog))
    /\ caller' = "BinaryOp"
    /\ callerLog' = <<>>
    /\ escaped' = FALSE

\* FilterElement.filterExpression, as Filter.getFilterList calls it for an
\* element whose expression is the BinaryOp: nothing catches what
\* getExpression throws
filterExpression ==
    LET r == apply(left, operator, right, exprLog)
    IN /\ Evaluate(r)
       /\ caller' = "FilterElement"
       /\ callerLog' = IF ~r.threw /\ r.result.dataType # "boolean"
                       THEN <<"Filter expression must have boolean value">>
                       ELSE <<>>
       /\ escaped' = r.threw

\* isAtomicFieldType of model/malloy_types
isAtomicFieldType(t) ==
    t \in {"string", "number", "boolean", "date", "timestamp", "unsupported"}

\* FieldDeclaration.queryFieldDef in a space that is no DefSpace, for a
\* declaration whose expression is the BinaryOp: what getExpression throws
\* is caught and logged
queryFieldDef ==
    LET r == apply(left, operator, right, exprLog)
    IN /\ Evaluate(r)
       /\ caller' = "FieldDeclaration"
       /\ callerLog' = IF r.threw THEN <<"Cannot define">>
                       ELSE IF isAtomicFieldType(r.result.dataType) THEN <<>>
                       ELSE <<"Cannot define, unexpected type">>
       /\ escaped' = FALSE

\* model.expressionIsAggregate of model/malloy_types
expressionIsAggregate(et) == et \in {"aggregate", "ungrouped_aggregate"}

\* Top.getBy for a Top whose by is the BinaryOp expression
getBy ==
    LET r == apply(left, operator, right, exprLog)
    IN /\ Evaluate(r)
       /\ caller' = "Top"
       /\ callerLog' = IF ~r.threw /\ expressionIsAggregate(r.result.expressionType)
                       THEN <<"top by expression must be an aggregate">>
                       ELSE <<>>
       /\ escaped' = r.threw

(***************************************************************************)
(* Pipelines: PipelineDesc and the queries and turtles built from it.      *)
(* A StructDef is known by the segments that produced it from the source:  *)
(* nextStructDef(s, seg) is the StructDef reached from s through seg.      *)
(***************************************************************************)
StructDef(p) == [err |-> FALSE, path |-> p]

\* ErrorFactory.structDef
ErrorStructDef == [err |-> TRUE, path |-> <<>>]

\* the StructDef of the explore the queries start from
SourceStructDef == StructDef(<<>>)

\* a segment: of a turtle of the source, built from a QOPDesc appended by
\* compilation comp, or the head segment as compilation comp refined it
Seg(k, c, i) == [kind |-> k, comp |-> c, idx |-> i]

\* the fields of the source that name something: two turtles and a column
TurtlePipeline(n) ==
    IF n = "t1" THEN <<Seg("turtle", 1, 1)>>
    ELSE IF n = "t2" THEN <<Seg("turtle", 2, 1), Seg("turtle", 2, 2)>>
    ELSE <<>>

IsTurtleName(n) == n \in {"t1", "t2"}
IsFieldName(n) == n \in {"t1", "t2", "col"}

\* ModelQuerySegment.nextStructDef
nextStructDef(inputStruct, opDesc) ==
    [inputStruct EXCEPT !.path = Append(@, opDesc)]

opOutputStruct(inputStruct, opDesc) ==
    IF ~inputStruct.err THEN nextStructDef(inputStruct, opDesc)
    ELSE ErrorStructDef

\* PipelineDesc.getOutputStruct
RECURSIVE getOutputStruct(_, _)
getOutputStruct(walkStruct, pipeline) ==
    IF pipeline = <<>> THEN walkStruct
    ELSE getOutputStruct(opOutputStruct(walkStruct, Head(pipeline)), Tail(pipeline))

\* a model.Pipeline
Pipeline(h, p) == [pipeHead |-> h, pipeline |-> p]

\* qop.getOp(inputFS, forPipeline): the segment, the StructDef of the space
\* it was compiled in, whether it was handed the pipeline, and whether
\* qex.inputFS.nestParent was assigned (forPipeline?.nestedInQuerySpace)
GetOp(seg, inputStruct, forPipeline, nestedInQuerySpace) ==
    [seg |-> seg, input |-> inputStruct, nested |-> forPipeline,
     nestParent |-> forPipeline /\ nestedInQuerySpace]

\* what a step of a compilation yields: a pipeline, the getOp calls made and
\* the diagnostics
Step(p, ops_, l) == [pipe |-> p, compiled |-> ops_, log |-> l]

\* the segments of this.qops, n of them, as compilation c names them
QopSegs(c, n) == [i \in 1..n |-> Seg("qop", c, i)]

\* PipelineDesc.appendOps; qopIsNested is computed from modelPipe, which the
\* loop does not change (it pushes to the copy returnPipe)
appendOps(modelPipe, endStruct, c, n, nestedInQuerySpace) ==
    LET segs == QopSegs(c, n)
        qopIsNested == Len(modelPipe) = 0
    IN [opList |-> modelPipe \o segs,
        structDef |-> getOutputStruct(endStruct, segs),
        compiled |-> [i \in 1..n |->
                         GetOp(segs[i],
                               getOutputStruct(endStruct, SubSeq(segs, 1, i - 1)),
                               qopIsNested, nestedInQuerySpace)]]

expandTurtleEmpty(turtleName, fromStruct, l) == [pipeline |-> <<>>, log |-> l]

\* PipelineDesc.expandTurtle: the pipeline and the diagnostics
expandTurtle(turtleName, fromStruct, l) ==
    IF fromStruct.err \/ ~IsFieldName(turtleName)
    THEN [pipeline |-> <<>>, log |-> Append(l, "Query is not defined in source")]
    ELSE IF ~IsTurtleName(turtleName)
    THEN [pipeline |-> <<>>, log |-> Append(l, "is not a query")]
    ELSE [pipeline |-> TurtlePipeline(turtleName), log |-> l]

\* PipelineDesc.refinePipeline
refinePipeline(fsStruct, modelPipe, headRefinement, c, l, nestedInQuerySpace) ==
    IF ~headRefinement THEN Step(modelPipe, <<>>, l)
    ELSE LET x == IF modelPipe.pipeHead # ""
                  THEN expandTurtle(modelPipe.pipeHead, fsStruct, l)
                  ELSE [pipeline |-> <<>>, log |-> l]
             pipeline == x.pipeline \o modelPipe.pipeline
             refined == Seg("refined", c, 0)
         IN Step(Pipeline("", <<refined>> \o
                              (IF pipeline = <<>> THEN <<>> ELSE Tail(pipeline))),
                 <<GetOp(refined, fsStruct, TRUE, nestedInQuerySpace)>>, x.log)

\* a model.Query or model.TurtleDef, and the entries of the model
Built(t, s, p) == [type |-> t, struct |-> s, pipeHead |-> p.pipeHead,
                   pipeline |-> p.pipeline]

NoEntry == Built("none", ErrorStructDef, Pipeline("", <<>>))

\* ErrorFactory.query
ErrorQuery == Built("query", ErrorStructDef, Pipeline("", <<>>))

\* what a compilation yields
Comp(b, out, ops_, l) ==
    [built |-> b, outputStruct |-> out, compiled |-> ops_, log |-> l]

\* internalError: the compilation throws
Thrown == Comp(Built("thrown", ErrorStructDef, Pipeline("", <<>>)), ErrorStructDef,
               <<>>, <<>>)

\* FullQuery.queryComp
FullQuery_queryComp(exploreDef, turtleName, headRefinement, c, n) ==
    IF exploreDef.err
    THEN Comp(Built("query", exploreDef, Pipeline("", <<>>)), exploreDef, <<>>, <<>>)
    ELSE IF turtleName # ""
    THEN LET l1 == IF IsFieldName(turtleName) THEN <<>> ELSE <<"is not defined">>
             x == expandTurtle(turtleName, exploreDef, l1)
             r == refinePipeline(exploreDef, Pipeline("", x.pipeline),
                                 headRefinement, c, x.log, FALSE)
             dest == IF headRefinement THEN Pipeline("", r.pipe.pipeline)
                     ELSE Pipeline(turtleName, <<>>)
             pipeStruct == getOutputStruct(exploreDef, r.pipe.pipeline)
             a == appendOps(dest.pipeline, pipeStruct, c, n, FALSE)
         IN Comp(Built("query", exploreDef, Pipeline(dest.pipeHead, a.opList)),
                 a.structDef, r.compiled \o a.compiled, r.log)
    ELSE LET a == appendOps(<<>>, exploreDef, c, n, FALSE)
         IN Comp(Built("query", exploreDef, Pipeline("", a.opList)),
                 a.structDef, a.compiled, <<>>)

\* ExistingQuery.queryComp
ExistingQuery_queryComp(seedQuery, headRefinement, c, n) ==
    IF seedQuery.type = "none"
    THEN Comp(ErrorQuery, ErrorStructDef, <<>>,
              <<"Reference to undefined query">>)
    ELSE IF seedQuery.type # "query"
    THEN Comp(ErrorQuery, ErrorStructDef, <<>>, <<"query expected">>)
    ELSE LET exploreStruct == seedQuery.struct
             r == refinePipeline(exploreStruct,
                                 Pipeline(seedQuery.pipeHead, seedQuery.pipeline),
                                 headRefinement, c, <<>>, FALSE)
             walkStruct == getOutputStruct(exploreStruct, r.pipe.pipeline)
             a == appendOps(r.pipe.pipeline, walkStruct, c, n, FALSE)
         IN Comp(Built("query", exploreStruct, Pipeline(r.pipe.pipeHead, a.opList)),
                 a.structDef, r.compiled \o a.compiled, r.log)

\* TurtleDecl.getPipeline and getFieldDef, in the space of the source;
\* if (nestParent) this.nestedInQuerySpace = nestParent
TurtleDecl_getFieldDef(turtleName, headRefinement, c, n, nestParent) ==
    IF turtleName = "" /\ headRefinement
    THEN Thrown
    ELSE LET r == IF turtleName = "" THEN Step(Pipeline("", <<>>), <<>>, <<>>)
                  ELSE IF ~IsFieldName(turtleName)
                  THEN Step(Pipeline("", <<>>), <<>>, <<"is not defined">>)
                  ELSE IF ~IsTurtleName(turtleName)
                  THEN Step(Pipeline("", <<>>), <<>>, <<"Expected to be a query">>)
                  ELSE refinePipeline(SourceStructDef,
                                      Pipeline("", TurtlePipeline(turtleName)),
                                      headRefinement, c, <<>>, nestParent)
             endStruct == getOutputStruct(SourceStructDef, r.pipe.pipeline)
             a == appendOps(r.pipe.pipeline, endStruct, c, n, nestParent)
         IN Comp(Built("turtle", SourceStructDef, Pipeline("", a.opList)),
                 a.structDef, r.compiled \o a.compiled, r.log)

\* a FullQuery, ExistingQuery or TurtleDecl node of the AST
Request(class, turtleName, headRefinement, n) ==
    [class |-> class, turtleName |-> turtleName,
     headRefinement |-> headRefinement, qops |-> n, nestParent |-> FALSE]

\* one compilation
Compile(r) ==
    /\ comps < MaxComps
    /\ comps' = comps + 1
    /\ built' = r.built
    /\ outputStruct' = r.outputStruct
    /\ compiled' = r.compiled
    /\ pipeLog' = r.log
    /\ UNCHANGED modelEntry
    /\ UNCHANGED <<spaceVars, execVars, exprVars, moreVars>>

TurtleNames == {"", "t1", "t2", "col", "nope"}

FullQuery ==
    \E s \in {SourceStructDef, ErrorStructDef}, t \in TurtleNames,
       h \in BOOLEAN, n \in 0..MaxQops :
        /\ Compile(FullQuery_queryComp(s, t, h, comps + 1, n))
        /\ request' = Request(IF s.err THEN "FullQuery of nothing" ELSE "FullQuery",
                              t, h, n)

ExistingQuery ==
    \E h \in BOOLEAN, n \in 0..MaxQops :
        /\ Compile(ExistingQuery_queryComp(modelEntry, h, comps + 1, n))
        /\ request' = Request("ExistingQuery", modelEntry.pipeHead, h, n)

TurtleDecl ==
    \E t \in TurtleNames, h \in BOOLEAN, n \in 0..MaxQops :
        /\ Compile(TurtleDecl_getFieldDef(t, h, comps + 1, n, FALSE))
        /\ request' = Request("TurtleDecl", t, h, n)

\* QueryFieldAST.getQueryFieldDef and fieldDef: the TurtleDecl of a query
\* field, nested in a query (nestParent) or not
QueryFieldAST ==
    \E t \in TurtleNames, h \in BOOLEAN, n \in 0..MaxQops, nestParent \in BOOLEAN :
        /\ Compile(TurtleDecl_getFieldDef(t, h, comps + 1, n, nestParent))
        /\ request' = [Request("QueryFieldAST", t, h, n)
                          EXCEPT !.nestParent = nestParent]

\* DefineQuery: the query just built becomes the model's entry
DefineQuery ==
    /\ built.type = "query"
    /\ built # modelEntry
    /\ modelEntry' = built
    /\ UNCHANGED <<built, outputStruct, compiled, pipeLog, comps, request>>
    /\ UNCHANGED <<spaceVars, execVars, exprVars, moreVars>>

(***************************************************************************)
(* NamedSource: a reference to a source of the model, with parameter       *)
(* values given in an is-block                                             *)
(***************************************************************************)
MaxCalls == 2

ParamNames == {"p", "q"}

ParamOrder == <<"p", "q">>

\* A constant expression fragment, possibly wrapped in a cast.
Expr(v) == [v |-> v, cast |-> ""]

NoExpr == [set |-> FALSE, v |-> Expr(0)]

\* model.Parameter: value holds the value of a value parameter and the
\* condition of a condition parameter; null is NoExpr.
Parameter(isValue, constant, value) ==
    [isValue |-> isValue, constant |-> constant, type |-> "number", value |-> value]

\* What HasParameter.parameter and ConstantParameter.parameter produce:
\* a parameter without default, with a default, a constant, a condition.
ParameterDecls ==
    { Parameter(TRUE, FALSE, NoExpr), Parameter(TRUE, FALSE, Some(Expr(1))),
      Parameter(TRUE, TRUE, Some(Expr(1))), Parameter(FALSE, FALSE, NoExpr) }

\* ConstantSubExpression.constantValue() of a value given in an is-block
ConstantValues ==
    { [dataType |-> "number", value |-> Expr(1)],
      [dataType |-> "string", value |-> Expr(2)] }

IsValueBlocks ==
    LET E == { [name |-> n, expr |-> x] : n \in ParamNames, x \in ConstantValues }
    IN  {<<>>} \cup { <<a>> : a \in E }
               \cup { <<a, b>> : a \in { x \in E : x.name = "p" },
                                 b \in { x \in E : x.name = "q" } }
               \cup { <<b, a>> : a \in { x \in E : x.name = "p" },
                                 b \in { x \in E : x.name = "q" } }

castTo(type, value) == [v |-> value.v, cast |-> type]

paramHasValue(decl) == decl.value.set

\* The assignment structDef makes to a declared parameter given a value.
BindAnyway(decl, pExpr) ==
    IF decl.isValue
    THEN [decl EXCEPT !.value = Some(IF pExpr.dataType # decl.type
                                     THEN castTo(decl.type, pExpr.value)
                                     ELSE pExpr.value)]
    ELSE [decl EXCEPT !.value = Some(pExpr.value)]

Bind(decl, pExpr) ==
    IF decl.isValue /\ decl.constant THEN decl ELSE BindAnyway(decl, pExpr)

\* The loop of structDef over the is-block, from its i-th pair on; st holds
\* the parameters, which are the entry's own objects, and the log.
RECURSIVE bindAll(_, _, _)
bindAll(st, makeWith, i) ==
    IF i > Len(makeWith) THEN st
    ELSE LET pName == makeWith[i].name
             pExpr == makeWith[i].expr
         IN  bindAll(
                IF pName \notin DOMAIN st.parameters
                THEN [st EXCEPT !.log =
                        Append(@, "Value given for undeclared parameter '" \o pName)]
                ELSE [st EXCEPT
                        !.parameters[pName] = Bind(@, pExpr),
                        !.log = IF st.parameters[pName].isValue
                                   /\ st.parameters[pName].constant
                                THEN Append(st.log,
                                       "Cannot override constant parameter " \o pName)
                                ELSE st.log],
                makeWith, i + 1)

RequiredLog(declared) ==
    LET missing == SelectSeq(ParamOrder,
                       LAMBDA n : n \in DOMAIN declared /\ ~paramHasValue(declared[n]))
    IN  [i \in 1..Len(missing) |->
            "Value not provided for required parameter " \o missing[i]]

modelStructLog(kind) ==
    CASE kind = "missing" -> <<"Undefined source 's'">>
      [] kind = "query"   -> <<"Must use 'from()' for query source 's">>
      [] kind = "sql"     -> <<"Must use 'from_sql()' for sql source 's">>
      [] OTHER            -> <<>>

\* NamedSource.structDef: the StructDef returned, the entry's parameters
\* afterwards and the diagnostics.
NamedSource_structDef(kind, declared, makeWith) ==
    IF kind # "struct"
    THEN [ret |-> [ref |-> "structDef", error |-> TRUE, parameters |-> <<>>],
          parameters |-> declared, log |-> modelStructLog(kind)]
    ELSE LET st == bindAll([parameters |-> declared, log |-> <<>>], makeWith, 1)
         IN  [ret |-> [ref |-> "structDef", error |-> FALSE,
                       parameters |-> st.parameters],
              parameters |-> st.parameters,
              log |-> st.log \o RequiredLog(st.parameters)]

\* NamedSource.structRef
NamedSource_structRef(kind, isExported, declared, makeWith) ==
    IF makeWith # <<>> \/ (kind # "missing" /\ ~isExported)
    THEN NamedSource_structDef(kind, declared, makeWith)
    ELSE [ret |-> [ref |-> "s", error |-> FALSE, parameters |-> <<>>],
          parameters |-> declared, log |-> <<>>]

Called(call, makeWith, r) ==
    /\ srcCalls < MaxCalls
    /\ srcCalls' = srcCalls + 1
    /\ srcCall' = call
    /\ isBlock' = makeWith
    /\ srcBefore' = parameters
    /\ parameters' = r.parameters
    /\ srcResult' = r.ret
    /\ srcLog' = r.log
    /\ UNCHANGED <<entryKind, exported, srcDeclared, coreVars, defVars, nestVars,
                   extVars, sqlVars>>

\* new NamedSource("s", makeWith).structDef()
namedStructDef(makeWith) ==
    Called("structDef", makeWith,
           NamedSource_structDef(entryKind, parameters, makeWith))

\* new NamedSource("s", makeWith).structRef()
namedStructRef(makeWith) ==
    Called("structRef", makeWith,
           NamedSource_structRef(entryKind, exported, parameters, makeWith))

(***************************************************************************)
(* DefSpace: the space a field of an explore is defined in                 *)
(***************************************************************************)
MaxLookups == 2

\* Paths an expression looks up: a name, or a name inside a name.
Paths == { <<h>> : h \in {"a", "c", "x"} } \cup { <<h, "a">> : h \in {"a", "c", "x"} }

LookupResult(error, found) == [error |-> error, found |-> found]

\* StaticSpace.lookup of the wrapped space
realLookup(m, path) ==
    LET e == LookupError(m, path[1], Len(path) > 1)
    IN  IF e = "" THEN LookupResult("", path[1])
        ELSE LookupResult("'" \o path[1] \o "' " \o e, "")

IsCircular(name, symbol) == Len(symbol) > 0 /\ symbol[1] = name

\* DefSpace.lookup
DefSpace_lookup(name, m, symbol) ==
    IF IsCircular(name, symbol)
    THEN LookupResult("Circular reference to '" \o name \o "' in definition", "")
    ELSE realLookup(m, symbol)

\* FieldDeclaration.fieldDef: a new DefSpace, and the expression starts
fieldDef(name) ==
    /\ defPc \in {"idle", "done"}
    /\ defPc' = "expr"
    /\ defineName' = name
    /\ foundCircle' = FALSE
    /\ defLookups' = <<>>
    /\ defType' = ""
    /\ defLog' = <<>>
    /\ UNCHANGED <<realFS, coreVars, srcVars, nestVars, extVars, sqlVars>>

\* the expression looks a path up in the DefSpace
defLookup(symbol) ==
    /\ defPc = "expr"
    /\ Len(defLookups) < MaxLookups
    /\ foundCircle' = (foundCircle \/ IsCircular(defineName, symbol))
    /\ defLookups' = Append(defLookups,
                        [path |-> symbol,
                         result |-> DefSpace_lookup(defineName, realFS, symbol)])
    /\ UNCHANGED <<defineName, realFS, defPc, defType, defLog, coreVars, srcVars, nestVars, extVars, sqlVars>>

circularDefNever(isDefSpace, circle) == FALSE

circularDef(isDefSpace, circle) == isDefSpace /\ circle

\* What queryFieldDef logs once the expression has a value of a data type,
\* or has thrown.
DefinitionLog(name, thrown, type, circular) ==
    IF thrown THEN <<"Cannot define '" \o name \o "', thrown">>
    ELSE IF isAtomicFieldType(type) \/ circular THEN <<>>
    ELSE IF type = "unknown"
    THEN <<"Cannot define '" \o name \o "', value has unknown type">>
    ELSE <<"Cannot define '" \o name \o "', unexpected type: " \o type>>

\* FieldDeclaration.queryFieldDef after getExpression
defined(thrown, type) ==
    /\ defPc = "expr"
    /\ defPc' = "done"
    /\ defType' = IF thrown THEN "" ELSE type
    /\ defLog' = DefinitionLog(defineName, thrown, type,
                               circularDef(TRUE, foundCircle))
    /\ UNCHANGED <<defineName, realFS, foundCircle, defLookups, coreVars, srcVars, nestVars, extVars, sqlVars>>

IdleDef ==
    /\ defineName = ""
    /\ realFS = <<>>
    /\ foundCircle = FALSE
    /\ defPc = "idle"
    /\ defLookups = <<>>
    /\ defType = ""
    /\ defLog = <<>>

(***************************************************************************)
(* Nested queries: ungrouping references checked against the output of     *)
(* the enclosing queries                                                   *)
(***************************************************************************)
MaxDepth == 3

MaxRequests == 2

\* The QuerySpaces and what happened so far.  A completion is the closure
\* () => parent.result.checkUngroup(fn, isExclude), held as the reference
\* site it was made for.
NoSpaces ==
    [complete |-> [k \in 1..MaxDepth |-> FALSE],
     completions |-> [k \in 1..MaxDepth |-> <<>>],
     performed |-> <<>>,
     log |-> <<>>]

RECURSIVE checkUngroup(_, _, _, _, _)
\* ResultSpace.checkUngroup of level k for the reference made at site;
\* h says which result spaces have the entry
checkUngroup(st, h, k, site, isExclude) ==
    IF h[k] THEN st
    ELSE IF isExclude /\ k > 1
    THEN \* parent.whenComplete(() => parent.result.checkUngroup(fn, isExclude))
         IF st.complete[k - 1]
         THEN checkUngroup([st EXCEPT !.performed =
                                Append(@, [site |-> site, level |-> k - 1])],
                           h, k - 1, site, isExclude)
         ELSE [st EXCEPT !.completions[k - 1] = Append(@, site)]
    ELSE [st EXCEPT !.log = Append(@,
            [site |-> site,
             msg |-> (IF isExclude THEN "exclude()" ELSE "all()")
                     \o " 'n' is missing from query output"])]

RECURSIVE runCompletions(_, _, _, _)
runCompletions(st, h, k, steps) ==
    IF steps = <<>> THEN st
    ELSE runCompletions(
            checkUngroup([st EXCEPT !.performed =
                             Append(@, [site |-> Head(steps), level |-> k])],
                         h, k, Head(steps), TRUE),
            h, k, Tail(steps))

\* DynamicSpace.isComplete of the QuerySpace of level k
QuerySpace_isComplete(st, h, k) ==
    LET done == runCompletions([st EXCEPT !.complete[k] = TRUE], h, k,
                               st.completions[k])
    IN  [done EXCEPT !.completions[k] = <<>>]

NotSeeded(st, h, k) == st

\* new QuerySpace(input, result) over the QuerySpace of level k: the
\* SpaceSeed asks the input space for its structDef(), which completes it
Seeded(st, h, k) == QuerySpace_isComplete(st, h, k)

\* the top level query's getOp
nestBegin ==
    /\ nestPc[1] = "waiting"
    /\ nestPc' = [nestPc EXCEPT ![1] = "execute"]
    /\ UNCHANGED <<depth, has, qs, requests, coreVars, srcVars, defVars, extVars, sqlVars>>

Innermost(k) == IF k = depth THEN TRUE ELSE nestPc[k + 1] \in {"waiting", "done"}

\* the executor's finalize: ResultSpace.getPipeSegment starts queryFieldDefs
nestFinalize(k) ==
    /\ nestPc[k] = "execute"
    /\ nestPc' = [nestPc EXCEPT ![k] = "finalize"]
    /\ UNCHANGED <<depth, has, qs, requests, coreVars, srcVars, defVars, extVars, sqlVars>>

\* QueryFieldAST.getQueryFieldDef of the nested query of level k: getOp
\* constructs the executor of level k + 1 over the QuerySpace of level k
nestCompile(k) ==
    /\ k < depth
    /\ nestPc[k] = "finalize"
    /\ nestPc[k + 1] = "waiting"
    /\ qs' = Seeded(qs, has, k)
    /\ nestPc' = [nestPc EXCEPT ![k + 1] = "execute"]
    /\ UNCHANGED <<depth, has, requests, coreVars, srcVars, defVars, extVars, sqlVars>>

\* an expression of level k with exclude(n) or all(n) has its result space
\* check the reference
ungroup(k, isExclude) ==
    /\ nestPc[k] \in {"execute", "finalize"}
    /\ Innermost(k)
    /\ requests < MaxRequests
    /\ requests' = requests + 1
    /\ qs' = checkUngroup(qs, has, k, [id |-> requests + 1, level |-> k,
                                       isExclude |-> isExclude],
                          isExclude)
    /\ UNCHANGED <<depth, has, nestPc, coreVars, srcVars, defVars, extVars, sqlVars>>

\* the rest of getPipeSegment: exprSpace.structDef() when the segment
\* extended its source
nestDone(k, extended) ==
    /\ nestPc[k] = "finalize"
    /\ IF k = depth THEN TRUE ELSE nestPc[k + 1] = "done"
    /\ qs' = IF extended THEN QuerySpace_isComplete(qs, has, k) ELSE qs
    /\ nestPc' = [nestPc EXCEPT ![k] = "done"]
    /\ UNCHANGED <<depth, has, requests, coreVars, srcVars, defVars, extVars, sqlVars>>

IdleNest ==
    /\ depth = 0
    /\ has = <<>>
    /\ nestPc = <<>>
    /\ qs = NoSpaces
    /\ requests = 0

(***************************************************************************)
(* QuerySpace.extendSource: joins and declarations made inside a segment   *)
(***************************************************************************)
MaxExtends == 2

\* the entry addField makes for a Join or a FieldDeclaration
ExtendEntry(isJoin, n, ok) ==
    IF isJoin
    THEN Entry(n, "JoinSpaceField", IF ok THEN "struct" ELSE "error", "scalar")
    ELSE Entry(n, "ExpressionFieldFromAst", "atomic", "scalar")

\* QuerySpace.extendSource(extendField)
extendSource(isJoin, n, ok) ==
    /\ ~xSegment.set
    /\ Len(extendList) < MaxExtends
    /\ LET e == ExtendEntry(isJoin, n, ok)
           r == newEntry(Outcome(xMap, xLog), n, e)
       IN  /\ xMap' = r.map
           /\ xLog' = r.log
           /\ xAdded' = IF r.map # xMap /\ Pushes(e) THEN Append(xAdded, n)
                        ELSE xAdded
    /\ extendList' = Append(extendList, n)
    /\ UNCHANGED <<xSegment, coreVars, srcVars, defVars, nestVars, sqlVars>>

RECURSIVE newExtends(_, _)
\* the loop of getPipeSegment over extendList: the fields of the extended
\* struct found under the names
newExtends(fields, names) ==
    IF names = <<>> THEN <<>>
    ELSE LET found == SelectSeq(fields, LAMBDA f : f.name = Head(names))
         IN  (IF found = <<>> THEN <<>> ELSE <<Head(found)>>)
             \o newExtends(fields, Tail(names))

\* ResultSpace.getPipeSegment(undefined), its extendSource
getPipeSegment_extendSource ==
    /\ ~xSegment.set
    /\ xSegment' =
          [set |-> TRUE,
           extendSource |->
              IF Len(extendList) > 0
              THEN mergeFields(<<>>, newExtends(BuildFinal(xMap).fields, extendList))
              ELSE <<>>]
    /\ UNCHANGED <<xMap, extendList, xAdded, xLog, coreVars, srcVars, defVars, nestVars, sqlVars>>

IdleExt ==
    /\ xMap = <<>>
    /\ extendList = <<>>
    /\ xAdded = <<>>
    /\ xLog = <<>>
    /\ xSegment = [set |-> FALSE, extendSource |-> <<>>]

(***************************************************************************)
(* SQLStatement: the statement that pauses the translation                 *)
(***************************************************************************)
MaxStatements == 3

BlockNames == {"s1", "s2"}

NoBlock == [set |-> FALSE, name |-> ""]

NoRequest == [set |-> FALSE, compileSQL |-> ""]

\* SQLStatement.sqlBlock: the block is made once
sqlBlock(memo, name) == IF memo.set THEN memo ELSE [set |-> TRUE, name |-> name]

\* Zone.reference: an entry not yet known is entered as a reference
reference(z, name) ==
    IF z[name] = "none" THEN [z EXCEPT ![name] = "reference"] ELSE z

PausesUnlessPresent(status) == status # "present"

\* whether execute returns a request for the status it found
Pauses(status) == status # "error" /\ status # "present"

\* SQLStatement.execute of the statement the pass has reached
SQLStatement_execute ==
    /\ ~pending.set
    /\ stmtAt <= Len(stmts)
    /\ LET sql == sqlBlock(requestBlock[stmtAt], stmts[stmtAt])
           z == reference(zone, sql.name)
           status == z[sql.name]
       IN  /\ requestBlock' = [requestBlock EXCEPT ![stmtAt] = sql]
           /\ zone' = z
           /\ referenced' = [referenced EXCEPT ![stmtAt] = @ \cup {sql.name}]
           /\ lastExec' = [name |-> sql.name, status |-> status,
                           returned |-> Pauses(status)]
           /\ IF Pauses(status)
              THEN /\ pending' = [set |-> TRUE, compileSQL |-> sql.name]
                   /\ stmtAt' = stmtAt
              ELSE /\ pending' = NoRequest
                   /\ stmtAt' = stmtAt + 1
    /\ UNCHANGED <<stmts, answers, coreVars, srcVars, defVars, nestVars, extVars>>

\* the driver compiles the SQL of the request, enters the schema or the
\* error into the zone and runs the pass again, from the paused statement
\* or from the first
answer(status, fromStart) ==
    /\ pending.set
    /\ zone' = [zone EXCEPT ![pending.compileSQL] = status]
    /\ answers' = answers \cup {pending.compileSQL}
    /\ pending' = NoRequest
    /\ stmtAt' = IF fromStart THEN 1 ELSE stmtAt
    /\ UNCHANGED <<stmts, requestBlock, lastExec, referenced, coreVars, srcVars,
                   defVars, nestVars, extVars>>

IdleSQL ==
    /\ stmts = <<>>
    /\ requestBlock = <<>>
    /\ zone = [n \in BlockNames |-> "none"]
    /\ stmtAt = 1
    /\ pending = NoRequest
    /\ lastExec = [name |-> "", status |-> "", returned |-> FALSE]
    /\ referenced = <<>>
    /\ answers = {}

IdleSrc ==
    /\ entryKind = "missing"
    /\ exported = FALSE
    /\ parameters = <<>>
    /\ isBlock = <<>>
    /\ srcCall = ""
    /\ srcBefore = <<>>
    /\ srcDeclared = <<>>
    /\ srcResult = [ref |-> "", error |-> FALSE, parameters |-> <<>>]
    /\ srcLog = <<>>
    /\ srcCalls = 0

IdleMore == IdleSrc /\ IdleDef /\ IdleNest /\ IdleExt /\ IdleSQL

IdlePipe ==
    /\ modelEntry = NoEntry
    /\ built = NoEntry
    /\ outputStruct = ErrorStructDef
    /\ compiled = <<>>
    /\ pipeLog = <<>>
    /\ comps = 0
    /\ request = Request("", "", FALSE, 0)

IdleExec ==
    /\ qop = <<>>
    /\ refineThis = NoSegment
    /\ pc = "idle"
    /\ qi = 0
    /\ opType = "grouping"
    /\ executor = "none"
    /\ exFilters = <<>>
    /\ exOrder = NoOrder
    /\ exLimit = NoNumber
    /\ exFields = <<>>
    /\ exLog = <<>>
    /\ opSegment = NoSegment

IdleSpace ==
    /\ spaceClass = "none"
    /\ map = <<>>
    /\ fromParams = <<>>
    /\ final = NoFinal
    /\ complete = FALSE
    /\ completions = <<>>
    /\ refineSeg = NoSeg
    /\ segment = NoSeg
    /\ log = <<>>
    /\ invoked = <<>>
    /\ registered = 0
    /\ builds = 0
    /\ returned = <<>>
    /\ lastOp = NoOp
    /\ ops = 0

(***************************************************************************)
(* SpecExec: one getOp over a property list                                *)
(***************************************************************************)
InitExec ==
    /\ IdleMore
    /\ IdleSpace
    /\ IdleExpr
    /\ IdlePipe
    /\ qop \in PropLists
    /\ refineThis \in ExistingSegments \cup {NoSegment}
    /\ pc = "start"
    /\ qi = 0
    /\ opType = "grouping"
    /\ executor = "none"
    /\ exFilters = <<>>
    /\ exOrder = NoOrder
    /\ exLimit = NoNumber
    /\ exFields = <<>>
    /\ exLog = <<>>
    /\ opSegment = NoSegment

NextExec ==
    \/ getExecutor
    \/ execute
    \/ finalize

SpecExec == InitExec /\ [][NextExec]_vars

(***************************************************************************)
(* SpecSpace: one field space.  A DynamicSpace is constructed over a       *)
(* source StructDef; a ResultSpace is constructed empty of fields and is   *)
(* given the segment it refines, if any.                                   *)
(***************************************************************************)
\* Source StructDefs a DynamicSpace is constructed from: <<fields, parameters>>
SourceStructs ==
    { << <<>>, <<>> >>,
      << <<FieldDef("a", "atomic", "scalar")>>, <<"p">> >>,
      << <<FieldDef("c", "struct", "scalar"), FieldDef("a", "atomic", "scalar"),
           FieldDef("b", "turtle", "scalar")>>, <<>> >> }

\* Names given to new entries
NewNames == {"a", "b"}

\* Segments a ResultSpace of the given type may be asked to refine
RefinedSegments(type) ==
    { NoSeg,
      [set |-> TRUE, type |-> type,
       fields |-> <<QueryFieldDef("a", "name", "ref", "scalar"),
                    QueryFieldDef("e", "def", "atomic", "scalar")>>] }

InitSpace ==
    /\ IdleMore
    /\ spaceClass \in {"DynamicSpace", "ReduceFieldSpace", "ProjectFieldSpace"}
    /\ IF spaceClass = "DynamicSpace"
       THEN /\ \E src \in SourceStructs :
                  /\ map = SeedMap(src[1], src[2])
                  /\ fromParams = src[2]
            /\ refineSeg = NoSeg
       ELSE /\ map = <<>>
            /\ fromParams = <<>>
            /\ refineSeg \in RefinedSegments(segmentType)
    /\ final = NoFinal
    /\ complete = FALSE
    /\ completions = <<>>
    /\ segment = NoSeg
    /\ log = <<>>
    /\ invoked = <<>>
    /\ registered = 0
    /\ builds = 0
    /\ returned = <<>>
    /\ lastOp = NoOp
    /\ ops = 0
    /\ IdleExec
    /\ IdleExpr
    /\ IdlePipe

\* ExploreField additions, made to a DynamicSpace by an explore or a query
DynamicOnly == spaceClass = "DynamicSpace"

NextSpace ==
    \/ \E n \in NewNames, x \in {"scalar", "aggregate"}, bad \in BOOLEAN :
          addField_FieldDeclaration(n, x, bad)
    \/ \E n \in NewNames, bad \in BOOLEAN : DynamicOnly /\ addField_TurtleDecl(n, bad)
    \/ \E n \in NewNames, ok \in BOOLEAN : DynamicOnly /\ addField_Join(n, ok)
    \/ \E old \in Names, new \in NewNames : DynamicOnly /\ addField_RenameField(old, new)
    \/ \E n \in NewNames, t \in {"atomic", "struct", "turtle"} :
          DynamicOnly /\ addFieldDef(FieldDef(n, t, "scalar"))
    \/ \E n \in NewNames : DynamicOnly /\ addParameters(n)
    \/ \E n \in RefNames : addReference(n)
    \/ addWild
    \/ \E n \in Names : addQueryItems_NestDefinition(n)
    \/ \E n \in RefNames, rest \in BOOLEAN : lookup(n, rest)
    \/ whenComplete
    \/ structDef
    \/ getPipeSegment

SpecSpace == InitSpace /\ [][NextSpace]_vars

(***************************************************************************)
(* SpecExpr: one binary operator applied to two operands                   *)
(***************************************************************************)
InitExpr ==
    /\ IdleMore
    /\ IdleSpace
    /\ IdleExec
    /\ IdlePipe
    /\ left \in Operands
    /\ right \in Operands
    /\ operator \in Operators
    /\ applied = FALSE
    /\ result = NoValue
    /\ exprLog = <<>>
    /\ threw = FALSE
    /\ caller = ""
    /\ callerLog = <<>>
    /\ escaped = FALSE

NextExpr ==
    \/ applyOperator
    \/ filterExpression
    \/ queryFieldDef
    \/ getBy

SpecExpr == InitExpr /\ [][NextExpr]_vars

(***************************************************************************)
(* SpecPipe: queries and turtles compiled one after another against one    *)
(* model                                                                   *)
(***************************************************************************)
InitPipe ==
    /\ IdleMore
    /\ IdleSpace
    /\ IdleExec
    /\ IdleExpr
    /\ modelEntry \in {NoEntry, Built("struct", SourceStructDef, Pipeline("", <<>>))}
    /\ built = NoEntry
    /\ outputStruct = ErrorStructDef
    /\ compiled = <<>>
    /\ pipeLog = <<>>
    /\ comps = 0
    /\ request = Request("", "", FALSE, 0)

NextPipe ==
    \/ FullQuery
    \/ ExistingQuery
    \/ TurtleDecl
    \/ DefineQuery

SpecPipe == InitPipe /\ [][NextPipe]_vars

(***************************************************************************)
(* SpecTurtle: the turtles of query fields, compiled one after another     *)
(***************************************************************************)
NextTurtle == QueryFieldAST

SpecTurtle == InitPipe /\ [][NextTurtle]_vars


(***************************************************************************)
(* SpecSource: NamedSources referring to one source of the model           *)
(***************************************************************************)
InitSource ==
    /\ IdleSQL
    /\ IdleSpace
    /\ IdleExec
    /\ IdleExpr
    /\ IdlePipe
    /\ IdleDef
    /\ IdleNest
    /\ IdleExt
    /\ entryKind \in {"struct", "query", "sql", "missing"}
    /\ exported \in BOOLEAN
    /\ parameters \in UNION { [D -> ParameterDecls] : D \in SUBSET ParamNames }
    /\ entryKind # "struct" => (parameters = <<>> /\ exported)
    /\ isBlock = <<>>
    /\ srcCall = ""
    /\ srcBefore = parameters
    /\ srcDeclared = parameters
    /\ srcResult = [ref |-> "", error |-> FALSE, parameters |-> <<>>]
    /\ srcLog = <<>>
    /\ srcCalls = 0

NextSource ==
    \/ \E makeWith \in IsValueBlocks : namedStructDef(makeWith)
    \/ \E makeWith \in IsValueBlocks : namedStructRef(makeWith)

SpecSource == InitSource /\ [][NextSource]_vars


(***************************************************************************)
(* SpecDef: fields defined one after another in an explore                 *)
(***************************************************************************)
InitDef ==
    /\ IdleSQL
    /\ IdleSpace
    /\ IdleExec
    /\ IdleExpr
    /\ IdlePipe
    /\ IdleSrc
    /\ IdleNest
    /\ IdleExt
    /\ defineName = ""
    /\ realFS \in { SeedMap(ss[1], ss[2]) : ss \in SourceStructs }
    /\ foundCircle = FALSE
    /\ defPc = "idle"
    /\ defLookups = <<>>
    /\ defType = ""
    /\ defLog = <<>>

NextDef ==
    \/ \E name \in {"a", "x"} : fieldDef(name)
    \/ \E symbol \in Paths : defLookup(symbol)
    \/ \E thrown \in BOOLEAN, type \in {"number", "unknown", "struct"} :
          defined(thrown, type)

SpecDef == InitDef /\ [][NextDef]_vars


(***************************************************************************)
(* SpecNest: a query with queries nested in it, compiled once              *)
(***************************************************************************)
InitNest ==
    /\ IdleSQL
    /\ IdleSpace
    /\ IdleExec
    /\ IdleExpr
    /\ IdlePipe
    /\ IdleSrc
    /\ IdleDef
    /\ IdleExt
    /\ depth \in 1..MaxDepth
    /\ has \in [1..depth -> BOOLEAN]
    /\ nestPc = [k \in 1..depth |-> "waiting"]
    /\ qs = NoSpaces
    /\ requests = 0

NextNest ==
    \/ nestBegin
    \/ \E k \in 1..depth : nestFinalize(k)
    \/ \E k \in 1..depth : nestCompile(k)
    \/ \E k \in 1..depth, isExclude \in BOOLEAN : ungroup(k, isExclude)
    \/ \E k \in 1..depth, extended \in BOOLEAN : nestDone(k, extended)

SpecNest == InitNest /\ [][NextNest]_vars


(***************************************************************************)
(* SpecExtend: one segment whose properties extend the source              *)
(***************************************************************************)
InitExtend ==
    /\ IdleSQL
    /\ IdleSpace
    /\ IdleExec
    /\ IdleExpr
    /\ IdlePipe
    /\ IdleSrc
    /\ IdleDef
    /\ IdleNest
    /\ xMap \in { SeedMap(ss[1], ss[2]) : ss \in SourceStructs }
    /\ extendList = <<>>
    /\ xAdded = <<>>
    /\ xLog = <<>>
    /\ xSegment = [set |-> FALSE, extendSource |-> <<>>]

NextExtend ==
    \/ \E isJoin \in BOOLEAN, n \in {"a", "x", "y"}, ok \in BOOLEAN :
          extendSource(isJoin, n, ok)
    \/ getPipeSegment_extendSource

SpecExtend == InitExtend /\ [][NextExtend]_vars


(***************************************************************************)
(* SpecSQL: a document of SQL statements translated by a driver that       *)
(* answers every request and runs the pass again                           *)
(***************************************************************************)
InitSQL ==
    /\ IdleSpace
    /\ IdleExec
    /\ IdleExpr
    /\ IdlePipe
    /\ IdleSrc
    /\ IdleDef
    /\ IdleNest
    /\ IdleExt
    /\ stmts \in UNION { [1..n -> BlockNames] : n \in 1..MaxStatements }
    /\ requestBlock = [i \in 1..Len(stmts) |-> NoBlock]
    /\ zone \in [BlockNames -> {"none", "present", "error"}]
    /\ stmtAt = 1
    /\ pending = NoRequest
    /\ lastExec = [name |-> "", status |-> "", returned |-> FALSE]
    /\ referenced = [i \in 1..Len(stmts) |-> {}]
    /\ answers = {}

NextSQL ==
    \/ SQLStatement_execute
    \/ \E status \in {"present", "error"}, fromStart \in BOOLEAN :
          answer(status, fromStart)

SpecSQL == InitSQL /\ [][NextSQL]_vars /\ WF_vars(NextSQL)


(***************************************************************************)
(* Properties of a field space                                             *)
(***************************************************************************)
\* C2: structDef() builds the StructDef on its first call only, and every
\* later call returns a StructDef identical to the one the first returned
\* (same fields in the same order, same parameters).
C2_StructDefBuiltOnce ==
    /\ builds <= 1
    /\ \A i \in 1..Len(returned) : returned[i] = returned[1]

\* two reads of a space that holds additions
C2_Witness ==
    /\ Len(returned) >= 2
    /\ Len(returned[2].fields) >= 1
    /\ lastOp.op = "structDef"

WriteOps == {"addField", "addParameters", "addFieldDef", "addReference",
             "addWild", "addQueryItems"}

\* C3: once a space is finalized, by a structDef() read or, for a
\* ResultSpace, by producing its segment, every later write is rejected
\* (it throws or logs) and leaves the entries unchanged.
C3_WritesRejectedAfterFinal ==
    (lastOp.op \in WriteOps /\ (lastOp.wasFinal \/ lastOp.hadSegment))
        => (lastOp.threw \/ lastOp.logged) /\ ~lastOp.changed

\* C4: every callback handed to whenComplete runs exactly once: those
\* registered before completion run in registration order when the space
\* completes, and one registered after completion runs at once.
C4_CallbacksOnce ==
    /\ invoked \o completions = [i \in 1..registered |-> i]
    /\ complete => completions = <<>>
    /\ ~complete => invoked = <<>>

\* callbacks registered before completion and one registered after it
C4_Witness ==
    /\ complete
    /\ Len(invoked) >= 2
    /\ lastOp.op = "whenComplete"
    /\ lastOp.wasComplete

\* atomic fields, then joins, then turtles
Rank(t) == IF t = "turtle" THEN 3 ELSE IF t \in {"struct", "error"} THEN 2 ELSE 1

\* C5: the StructDef lists the atomic fields first, in insertion order,
\* then the joins, then the turtles.
C5_FieldOrder ==
    final.set =>
        \A i, j \in 1..Len(final.fields) :
            i < j =>
                /\ Rank(final.fields[i].typ) <= Rank(final.fields[j].typ)
                /\ (Rank(final.fields[i].typ) = 1 /\ Rank(final.fields[j].typ) = 1)
                      => IndexOf(map, final.fields[i].name)
                            < IndexOf(map, final.fields[j].name)

\* whether a member of a segment is an aggregate or a turtle: a bare name
\* stands for the field of the input space it names
AggregateOrTurtle(f) ==
    IF f.form = "name"
    THEN InputDefined(f.name)
            /\ (InputField(f.name).typ = "turtle" \/ InputField(f.name).et = "aggregate")
    ELSE f.typ = "turtle" \/ f.et = "aggregate"

\* C6: the fields of a finalized project segment hold no aggregate and no
\* turtle, however the member was supplied.
C6_ProjectFieldsScalar ==
    (segment.set /\ segment.type = "project")
        => \A i \in 1..Len(segment.fields) : ~AggregateOrTurtle(segment.fields[i])

\* C7: in a ResultSpace, adding an output name that is already present logs
\* a diagnostic and leaves the existing entry in place.
C7_DuplicateOutputNames ==
    (/\ spaceClass # "DynamicSpace"
     /\ lastOp.op \in {"addField", "addReference", "addQueryItems"}
     /\ ~lastOp.wasFinal
     /\ lastOp.existed)
        => lastOp.logged /\ ~lastOp.changed

\* The finished refinement of an existing segment of the executor's own type.
RefinedDone == pc = "done" /\ refineThis.set /\ refineThis.type = executor

\* C8: finalizing against an existing segment, the result takes the ordering
\* and the limit of the refinement when the refinement set one and those of
\* the existing segment otherwise, and its filterList is the existing filters
\* followed by the refinement's filters in execution order.
C8_RefinementOverrides ==
    RefinedDone =>
        /\ IF exOrder.set
           THEN IF exOrder.kind = "Top"
                THEN opSegment.by = Some(exOrder.tag) /\ ~opSegment.orderBy.set
                ELSE opSegment.orderBy = Some(exOrder.tag) /\ ~opSegment.by.set
           ELSE opSegment.orderBy = refineThis.orderBy /\ opSegment.by = refineThis.by
        /\ opSegment.limit = IF exLimit.set THEN exLimit ELSE refineThis.limit
        /\ opSegment.filterList.v = refineThis.filterList.v \o exFilters

\* C9: refining a reduce segment with a refinement that has no properties
\* gives back the segment itself, nothing added or removed, and logs nothing.
C9_EmptyRefinementIdentity ==
    (RefinedDone /\ refineThis.type = "reduce" /\ qop = <<>>) =>
        opSegment = refineThis /\ exLog = <<>>

\* the stages a built query or turtle runs: the segments of its pipeHead
\* turtle, then its own
Stages(b) ==
    (IF b.pipeHead # "" THEN TurtlePipeline(b.pipeHead) ELSE <<>>) \o b.pipeline

\* C1: in every query or turtle built, each segment compiled for it was
\* compiled against the StructDef that the stages before it produce from the
\* source: the source itself for stage 0, nextStructDef of the preceding
\* output and segment for every later one, pipeHead turtles and refined
\* heads included.
C1_SegmentsTypedByPredecessor ==
    (built.type \in {"query", "turtle"} /\ ~built.struct.err) =>
        \A i \in 1..Len(compiled) :
            \E k \in 1..Len(Stages(built)) :
                /\ Stages(built)[k] = compiled[i].seg
                /\ compiled[i].input =
                       getOutputStruct(built.struct, SubSeq(Stages(built), 1, k - 1))

\* the operators applyBinary handles
BinaryOperators == Operators \ {"&"}

\* C10: an operator applied to operands of which at least one is an error
\* logs no diagnostic, whatever the other operand is.
C10_ErrorOperandLogsNothing ==
    (applied /\ operator \in BinaryOperators
        /\ (left.dataType = "error" \/ right.dataType = "error"))
        => exprLog = <<>>

\* how often a diagnostic is in the log
Count(l, msg) == Cardinality({i \in 1..Len(l) : l[i] = msg})

\* the diagnostics of the declarations made in the space
DeclarationDiagnostics == {map[i].diag : i \in 1..Len(map)} \ {""}

\* C11: whatever lookups are made of a declared field before the space is
\* finalized, each diagnostic of compiling its definition is logged at most
\* once.
C11_DefinitionDiagnosticOnce ==
    \A d \in DeclarationDiagnostics : Count(log, d) <= 1

\* C12: whatever the expression, an entry point of the compilation returns
\* with diagnostics; no exception leaves it, also not for ~ and !~ in a
\* filter over operands that are neither two strings nor a string and a
\* regular expression.
C12_NoExceptionEscapes ==
    (applied /\ caller \in {"FilterElement", "FieldDeclaration"}) => ~escaped


(***************************************************************************)
(* Properties of a NamedSource                                             *)
(***************************************************************************)
InLog(msg) == \E i \in 1..Len(srcLog) : srcLog[i] = msg

Supplied == { isBlock[i].name : i \in 1..Len(isBlock) }

BoundSource == srcCall = "structDef" /\ entryKind = "struct"

\* C13: after NamedSource.structDef on a source of the model, a diagnostic
\* is in the log for each supplied name that is not declared, for each
\* supplied value that targets a constant value parameter (whose value is
\* what it was), and for each declared parameter left without a value; no
\* 'required parameter' diagnostic is logged for a parameter that was given
\* a value or had one before the call.
C13_ParameterDiagnostics ==
    BoundSource =>
        /\ \A n \in Supplied \ DOMAIN srcBefore :
              InLog("Value given for undeclared parameter '" \o n)
        /\ \A n \in Supplied \cap DOMAIN srcBefore :
              (srcBefore[n].isValue /\ srcBefore[n].constant) =>
                  /\ InLog("Cannot override constant parameter " \o n)
                  /\ parameters[n].value = srcBefore[n].value
        /\ \A n \in DOMAIN parameters :
              ~parameters[n].value.set =>
                  InLog("Value not provided for required parameter " \o n)
        /\ \A n \in DOMAIN parameters :
              (n \in Supplied \/ srcBefore[n].value.set) =>
                  ~InLog("Value not provided for required parameter " \o n)

\* A call that left one parameter without value and gave a value to another,
\* and one that refused to override a constant.
C13_Witness ==
    /\ BoundSource
    /\ \E n \in DOMAIN parameters :
          InLog("Value not provided for required parameter " \o n)
    /\ \E n \in DOMAIN parameters : parameters[n] # srcBefore[n]
    /\ srcResult.parameters = parameters

\* C14: for a source with a value parameter that has a default, structRef()
\* of a NamedSource whose is-block binds that parameter to its default
\* returns what structRef() of a NamedSource without is-block returns, and
\* leaves the same parameter values.
C14_DefaultBindingRoundTrip ==
    (/\ srcCall = "structRef"
     /\ entryKind = "struct"
     /\ Len(isBlock) = 1
     /\ isBlock[1].name \in DOMAIN srcBefore
     /\ srcBefore[isBlock[1].name].isValue
     /\ srcBefore[isBlock[1].name].value = Some(isBlock[1].expr.value)
     /\ srcBefore[isBlock[1].name].type = isBlock[1].expr.dataType)
    => LET omitted == NamedSource_structRef(entryKind, exported, srcBefore, <<>>)
       IN  /\ srcResult = omitted.ret
           /\ parameters = omitted.parameters

(***************************************************************************)
(* Properties of a DefSpace                                                *)
(***************************************************************************)
FollowOn ==
    { "Cannot define '" \o defineName \o "', value has unknown type" }
    \cup { "Cannot define '" \o defineName \o "', unexpected type: " \o t :
              t \in {"number", "unknown", "struct"} }

\* C15: while a field is being defined in an explore, a lookup in its
\* DefSpace returns the circular reference error exactly when the path
\* starts with the name being defined, and otherwise what the wrapped space
\* returns; foundCircle is set exactly when such a lookup has been made and
\* stays set; a definition that found the circle logs no 'unknown type' or
\* 'unexpected type' diagnostic.
C15_CircularDefinition ==
    /\ \A i \in 1..Len(defLookups) :
          LET l == defLookups[i]
              circular == "Circular reference to '" \o defineName \o "' in definition"
          IN  /\ (l.path[1] = defineName) <=> (l.result.error = circular)
              /\ l.path[1] # defineName => l.result = realLookup(realFS, l.path)
    /\ defPc # "idle" =>
          (foundCircle <=> \E i \in 1..Len(defLookups) : defLookups[i].path[1] = defineName)
    /\ (defPc = "done" /\ foundCircle) =>
          \A i \in 1..Len(defLog) : defLog[i] \notin FollowOn

\* A definition whose expression referred to the field itself, then to
\* another field, and ended with a value of unknown type.
C15_Witness ==
    /\ defPc = "done"
    /\ foundCircle
    /\ defType = "unknown"
    /\ Len(defLookups) = 2
    /\ defLookups[1].path[1] = defineName
    /\ defLookups[2].path[1] # defineName
    /\ defLookups[2].result.error = ""

(***************************************************************************)
(* Properties of nested queries                                            *)
(***************************************************************************)
\* the exclude() references made in a nested query whose own output lacks
\* the name
Deferred ==
    { [id |-> i, level |-> k, isExclude |-> TRUE] :
         i \in 1..requests, k \in { j \in 2..depth : ~has[j] } }

Times(l, x) == Cardinality({ i \in 1..Len(l) : l[i] = x })

Logged16(site) == Cardinality({ i \in 1..Len(qs.log) : qs.log[i].site = site })

Asked(site) ==
    \/ \E i \in 1..Len(qs.performed) : qs.performed[i].site = site
    \/ \E k \in 1..depth :
          \E i \in 1..Len(qs.completions[k]) : qs.completions[k][i] = site
    \/ Logged16(site) > 0

C17_PipeHeadOrRefinement ==
    LET appended == QopSegs(comps, request.qops)
        refined == Seg("refined", comps, 0)
    IN  /\ (built.type = "query" /\ request.headRefinement) => built.pipeHead = ""
        /\ (request.class = "FullQuery" /\ request.turtleName # "") =>
              IF request.headRefinement
              THEN built.pipeline =
                      <<refined>>
                      \o (IF IsTurtleName(request.turtleName)
                          THEN Tail(TurtlePipeline(request.turtleName)) ELSE <<>>)
                      \o appended
              ELSE /\ built.pipeHead = request.turtleName
                   /\ built.pipeline = appended

\* A FullQuery that refines the head of a turtle of two segments and appends
\* a segment.
C17_Witness ==
    /\ request = Request("FullQuery", "t2", TRUE, 1)
    /\ built.type = "query"
    /\ Len(built.pipeline) = 3
    /\ built.pipeHead = ""

(***************************************************************************)
(* Properties of a segment's extendSource                                  *)
(***************************************************************************)
\* C18: the extendSource of a finalized segment holds the fields that the
\* segment's joins and declarations added to the input space, in the order
\* they were added, and no field the source had before.
C18_ExtendSourceOnlyAdditions ==
    xSegment.set =>
        [i \in 1..Len(xSegment.extendSource) |-> xSegment.extendSource[i].name]
            = xAdded

(***************************************************************************)
(* Properties of SQL statements                                            *)
(***************************************************************************)
ExecutedAsSpecified ==
    /\ lastExec.name # "" =>
          (lastExec.returned <=> lastExec.status \notin {"present", "error"})
    /\ \A i \in 1..Len(stmts) : Cardinality(referenced[i]) <= 1
    /\ \A i \in 1..Len(stmts) :
          (i = stmtAt /\ ~pending.set /\ requestBlock[i].set
           /\ zone[requestBlock[i].name] \in {"present", "error"})
          => ~Pauses(zone[sqlBlock(requestBlock[i], stmts[i]).name])

PassEnded == stmtAt = Len(stmts) + 1 /\ ~pending.set

\* C19: execute returns a request exactly when the entry of the statement's
\* block is neither present nor in error; a statement always refers to the
\* same block name, so that it does not ask again once the driver has
\* resolved that name; and with a driver that answers every request and
\* runs the pass again, a pass eventually returns no request.
C19_RequestsEnd == []ExecutedAsSpecified /\ <>PassEnded

\* A pass that ended after the driver had resolved a request, its last
\* statement finding its block present.
C19_Witness ==
    /\ PassEnded
    /\ answers # {}
    /\ lastExec.name \in answers
    /\ lastExec.status = "present"
    /\ ~lastExec.returned

(***************************************************************************)
(* Properties of Top                                                       *)
(***************************************************************************)
\* C20: Top.getBy with a by expression logs "top by expression must be an
\* aggregate" exactly when the expression is not an aggregate.
C20_TopByMustBeAggregate ==
    (applied /\ caller = "Top" /\ ~threw) =>
        ((callerLog = <<"top by expression must be an aggregate">>)
            <=> result.expressionType \notin {"aggregate", "ungrouped_aggregate"})

\* the properties executed so far by a ReduceExecutor or ProjectExecutor
Executed == 1..(qi - 1)

\* those that carry a limit and those that carry an ordering
Limiting == { i \in Executed : qop[i].kind \in {"Limit", "Top"} }
Sorting ==
    { i \in Executed :
        qop[i].kind = "Ordering" \/ (qop[i].kind = "Top" /\ qop[i].tag # "") }

First(S) == CHOOSE i \in S : \A j \in S : i <= j

AlreadySorted ==
    {"Query operation already sorted", "Query operation is already sorted"}

\* C21: in a reduce or project executor the limit is that of the first
\* Limit or Top executed, whatever its value, and the ordering that of the
\* first Ordering or Top with a by; each later one logs its 'already limited'
\* or 'already sorted' diagnostic and changes nothing.
C21_FirstLimitAndOrderWin ==
    (pc = "execute" /\ executor \in {"reduce", "project"}) =>
        /\ IF Limiting = {}
           THEN ~exLimit.set
           ELSE exLimit = Some(qop[First(Limiting)].n)
        /\ IF Sorting = {}
           THEN ~exOrder.set
           ELSE exOrder.set /\ exOrder.tag = qop[First(Sorting)].tag
        /\ Cardinality({ i \in 1..Len(exLog) :
                           exLog[i] = "Query operation already limited" })
             = IF Limiting = {} THEN 0 ELSE Cardinality(Limiting) - 1
        /\ Cardinality({ i \in 1..Len(exLog) : exLog[i] \in AlreadySorted })
             = IF Sorting = {} THEN 0 ELSE Cardinality(Sorting) - 1

\* whether a filter element's expression kind is the kind its clause takes
MatchesClause(qp, fExpr) ==
    IF qp.elementType = "having"
    THEN fExpr.expressionType \in {"aggregate", "analytic"}
    ELSE fExpr.expressionType = "scalar"

\* the elements of the first n properties, in order, each with its Filter
RECURSIVE FilterElements(_)
FilterElements(n) ==
    IF n = 0 THEN <<>>
    ELSE FilterElements(n - 1) \o
         (IF qop[n].kind = "Filter"
          THEN [i \in 1..Len(qop[n].list) |->
                    [qp |-> qop[n], fExpr |-> qop[n].list[i]]]
          ELSE <<>>)

Matching(e) == MatchesClause(e.qp, e.fExpr)

Code(elements) == [i \in 1..Len(elements) |-> elements[i].fExpr.code]

FilterDiagnostics ==
    {"Aggregate or Analytical expression expected in HAVING filter",
     "Aggregate or Analytical expressions not allowed in WHERE"}

\* C22: of the filter elements a reduce executor has executed, those whose
\* expression kind matches their clause (scalar in a WHERE, aggregate or
\* analytic in a HAVING) are the executor's filters, in order, and each of
\* the others has logged one diagnostic and is not among the filters.
C22_FiltersMatchTheirClause ==
    (pc = "execute" /\ executor = "reduce") =>
        LET elements == FilterElements(qi - 1)
        IN /\ exFilters = Code(SelectSeq(elements, Matching))
           /\ Cardinality({ i \in 1..Len(exLog) : exLog[i] \in FilterDiagnostics })
                = Len(elements) - Len(SelectSeq(elements, Matching))

\* the segment kind a property fixes, "" for a property that fixes none
KindFixed(qp) ==
    IF qp.kind = "Index" THEN "index"
    ELSE IF qp.kind \in {"GroupBy", "Nests", "NestedQuery"} THEN "grouping"
    ELSE IF qp.kind = "Aggregate" THEN "aggregate"
    ELSE IF qp.kind = "ProjectStatement" THEN "project"
    ELSE ""

KindFixing == { i \in 1..Len(qop) : KindFixed(qop[i]) # "" }

FixedKind == KindFixed(qop[First(KindFixing)])

\* grouping and aggregate properties share a segment; an index or a project
\* property goes with its own kind only
Contradicts(qp) ==
    /\ KindFixed(qp) # ""
    /\ IF KindFixed(qp) \in {"grouping", "aggregate"}
       THEN FixedKind \in {"project", "index"}
       ELSE FixedKind # KindFixed(qp)

NotLegal(qp) ==
    (IF qp.kind = "Index" THEN "index"
     ELSE IF qp.kind = "Aggregate" THEN "aggregate"
     ELSE IF qp.kind = "ProjectStatement" THEN "project"
     ELSE "group_by") \o ": not legal in " \o FixedKind \o " query"

Contradicting == SelectSeq(qop, Contradicts)

\* C23: for a property list with no segment to refine, computeType gives the
\* kind of the first kind-fixing property, grouping instead of aggregate
\* exactly when a grouping property is in the list; it logs one 'not legal
\* in <kind> query' for each property that contradicts that kind, in order,
\* and nothing else; with no kind-fixing property it gives grouping and logs
\* 'Can't determine query type' once.
C23_KindFixedByFirstProperty ==
    (pc = "execute" /\ qi = 1 /\ ~refineThis.set) =>
        IF KindFixing = {}
        THEN /\ opType = "grouping"
             /\ exLog = <<"Can't determine query type (group_by/aggregate/nest,project,index)">>
        ELSE /\ opType =
                  IF FixedKind = "aggregate"
                        /\ \E i \in KindFixing : KindFixed(qop[i]) = "grouping"
                  THEN "grouping" ELSE FixedKind
             /\ exLog = [i \in 1..Len(Contradicting) |-> NotLegal(Contradicting[i])]

\* an aggregate-first list with a later group_by and a contradicting index
C23_Witness ==
    /\ pc = "execute" /\ qi = 1 /\ ~refineThis.set
    /\ Len(qop) = 3
    /\ qop[1].kind = "Aggregate" /\ qop[2].kind = "GroupBy" /\ qop[3].kind = "Index"
    /\ opType = "grouping"
    /\ exLog = <<"index: not legal in aggregate query">>

(***************************************************************************)
(* Properties of the binary operators                                      *)
(***************************************************************************)
OneIsNull == left.dataType = "null" \/ right.dataType = "null"

Negative == operator \in {"!=", "!~"}

\* the IS NULL test of an operand
IsNullTest(ev) == ValueOf(ev) \o (IF Negative THEN " IS NOT NULL" ELSE " IS NULL")

\* C24: an equality operator (=, !=, ~, !~) applied to operands of which at
\* least one is null never throws and returns a boolean: the IS NULL test of
\* the operand that is not null (IS NOT NULL for != and !~), the same
\* whichever side the null is on, and true (false for != and !~) when both
\* are null.
C24_NullSafeEquality ==
    (applied /\ isEquality(operator) /\ OneIsNull) =>
        /\ ~threw
        /\ result.dataType = "boolean"
        /\ result.value =
               IF left.dataType # "null" THEN IsNullTest(left)
               ELSE IF right.dataType # "null" THEN IsNullTest(right)
               ELSE IF Negative THEN "false" ELSE "true"

\* one operand is a date, the other a timestamp, and each has a timestamp
\* rendering
DateAndTimestamp ==
    /\ {left.dataType, right.dataType} = {"date", "timestamp"}
    /\ willMorphTo(left) /\ willMorphTo(right)

\* the comparisons of the two timestamp renderings
TimestampComparisons ==
    { compose(MorphedTo(left), operator, MorphedTo(right)),
      nullsafeNot(compose(MorphedTo(left), "=", MorphedTo(right)), operator) }

\* C25: = and != between a date and a timestamp, each able to morph to
\* timestamp, return a comparison of the timestamp renderings of the two
\* operands, not of their own fragments.
C25_EqualityComparesTimestamps ==
    (applied /\ operator \in {"=", "!="} /\ DateAndTimestamp) =>
        /\ ~threw
        /\ result.value \in TimestampComparisons

OneIsError == left.dataType = "error" \/ right.dataType = "error"

\* C26: a binary operator of any class (equality, comparison, additive,
\* multiplicative, division) applied to operands of which at least one is
\* an error returns a value of dataType error whose expressionType is the
\* max of the expressionTypes of the operands.
C26_ErrorOperandGivesError ==
    (applied /\ operator \in BinaryOperators /\ OneIsError) =>
        /\ ~threw
        /\ result.dataType = "error"
        /\ result.expressionType =
               maxExpressionType(left.expressionType, right.expressionType)

\* + or - applied to a date or a timestamp
TimeOffset ==
    applied /\ operator \in {"+", "-"} /\ isTimeFieldType(left.dataType)

\* the right operand is a duration with a numeric count, or a number
NumberOf ==
    IF right.class = "duration" THEN right.n = "number"
    ELSE right.dataType = "number"

\* the unit of the duration; "" where a number on the right has no unit
UnitOf ==
    IF right.class = "duration" THEN right.unit
    ELSE IF left.timeframe # "" THEN left.timeframe
    ELSE IF left.dataType = "date" THEN "day"
    ELSE ""

\* C27: + and - of a date or timestamp and a number of units. A number on
\* the right counts units of the left operand's timeframe when the left is
\* granular and days when the left is a date that is not; on a timestamp
\* that is not granular it is rejected with one diagnostic and an error.
\* The result has a timeframe exactly when the left operand is granular and
\* the unit is its timeframe, and then that timeframe.
C27_OffsetGranularity ==
    (TimeOffset /\ NumberOf) =>
        /\ ~threw
        /\ IF UnitOf = ""
           THEN result.dataType = "error" /\ Len(exprLog) = 1
           ELSE /\ result.timeframe # ""
                    <=> (left.timeframe # "" /\ UnitOf = left.timeframe)
                /\ result.timeframe # "" => result.timeframe = left.timeframe
                /\ (left.dataType = "timestamp" \/ isDateUnit(UnitOf))
                    => result.dataType = left.dataType /\ exprLog = <<>>

\* a granular timestamp offset by a number keeps its timeframe
C27_Witness ==
    /\ TimeOffset
    /\ right.class = "expr" /\ right.dataType = "number"
    /\ left.dataType = "timestamp" /\ left.timeframe = "hour"
    /\ result.dataType = "timestamp" /\ result.timeframe = "hour"

(***************************************************************************)
(* Properties of appendOps                                                 *)
(***************************************************************************)
\* the segments the pipeline had before appendOps
PreExisting == Len(built.pipeline) - request.qops

\* C28: of the segments appendOps appends for a turtle, only the first one
\* appended to a pipeline that had no segments has the nestParent of its
\* input space set, and that only for a turtle nested in a query; a later
\* appended segment, and a segment appended after existing segments, has
\* none.
C28_OnlyFirstSegmentNested ==
    built.type = "turtle" =>
        \A i \in 1..Len(compiled) :
            (compiled[i].seg.kind = "qop" /\ compiled[i].nestParent) =>
                /\ request.nestParent
                /\ compiled[i].seg.idx = 1
                /\ PreExisting = 0

(***************************************************************************)
(* Properties of renames                                                   *)
(***************************************************************************)
\* old names a field that a RenameField can rename to new
Renamable(old, new) ==
    old # new /\ entry(map, old) /\ IsSpaceField(EntryOf(map, old))

\* what a rename old -> new of a space that is not final leaves behind
Renamed(old, new) ==
    IF ~Renamable(old, new)
    THEN log' # log /\ map' = map
    ELSE /\ ~entry(map', old)
         /\ entry(map', new)
         /\ EntryOf(map', new) = RenameSpaceField(EntryOf(map, old), new)
         /\ \A i \in 1..Len(map) :
               map[i].name # old =>
                   \/ entry(map', map[i].name) /\ EntryOf(map', map[i].name) = map[i]
                   \/ log' # log

\* C29: a RenameField old -> new added to a space logs a diagnostic and
\* leaves the space unchanged when new is old or old names no renamable
\* field; otherwise old names nothing afterwards, new names an alias of the
\* field old named, and every other entry is as it was unless a diagnostic
\* was logged.
C29_RenameReplacesNothing ==
    [][\A old \in Names, new \in NewNames :
          (DynamicOnly /\ ~final.set /\ addField_RenameField(old, new))
              => Renamed(old, new)]_vars

(***************************************************************************)
(* Properties of the model's entry for a source                            *)
(***************************************************************************)
\* a NamedSource without is-block has built the StructDef of the source
Unbound == BoundSource /\ isBlock = <<>>

\* C30: the NamedSources that refer to a source leave the parameters of the
\* model's entry as they were declared, whatever values they bind; a
\* NamedSource that binds nothing returns the declared values and
\* conditions and logs 'required parameter' for each parameter declared
\* without a value.
C30_BindingLeavesEntryUnchanged ==
    /\ parameters = srcDeclared
    /\ Unbound =>
          /\ srcResult.parameters = srcDeclared
          /\ \A n \in DOMAIN srcDeclared :
                ~srcDeclared[n].value.set =>
                    InLog("Value not provided for required parameter " \o n)

====
